---- MODULE Spec2Model ----
(***************************************************************************)
(* A model of the ETH price prediction session (the App component): the    *)
(* market-data refresh, the three heuristic prediction loops, the oracle   *)
(* prediction loop with its rate-limit cooldown, and the reactive outcome  *)
(* resolution pass.                                                        *)
(*                                                                         *)
(* Time is wall-clock milliseconds (Date.now()); the model jumps from one  *)
(* timer or network deadline to the next.  React state is modelled as the  *)
(* committed value of every useState hook plus the queue of setState calls *)
(* not yet rendered; a render applies the queue in call order, refs that   *)
(* mirror state are the committed values, and passive effects whose        *)
(* dependencies changed run after the commit, possibly after other timer   *)
(* callbacks that were due at the same instant.                            *)
(*                                                                         *)
(* Units: prices are integer cents, imbalance and confidence are           *)
(* thousandths.  A nullable value is a sequence of length 0 or 1.          *)
(***************************************************************************)
EXTENDS Integers, Sequences, FiniteSets, TLC

----------------------------------------------------------------------------
(* Program constants *)

MAX_HISTORY_LENGTH == 120
PREDICTION_INTERVAL == 30000
RATE_LIMIT_COOLDOWN == 60000
MAX_PREDICTION_HISTORY_ITEMS == 15
MAX_OUTCOME_HISTORY == 60
BINANCE_ENDPOINTS == 3
MARKET_DATA_INTERVAL == 2000
ORACLE_WARMUP == 5000
MIN_ORACLE_SAMPLES == 60
LOOP_JITTER_BASE == 2500
LOOP_JITTER_SPAN == 500
KLINE_INTERVAL == 1000

Timeframes == {"15s", "30s", "60s"}

TimeframeOrder == <<"15s", "30s", "60s">>

timeframeMap == [tf \in Timeframes |->
                   CASE tf = "15s" -> 15000 [] tf = "30s" -> 30000 [] tf = "60s" -> 60000]

----------------------------------------------------------------------------
(* Bounds of the exploration *)

\* network latency of one market-data refresh (all four requests)
FetchLatency == 500
\* the loops' initial jitter is drawn from LOOP_JITTER_BASE + k * JitterStep
JitterStep == 200
\* latency of an oracle call: a fast answer, and one slower than the period
OracleFast == 2000
OracleSlow == 31000
\* in one behaviour the environment deviates at most this often from a quiet
\* market and an oracle that answers fast with its nominal answer
MaxDeviations == 1
\* an outage of every price source lasts this long
OutageLength == 16000
\* the early scenario explores [0, EarlyHorizon] with a changing market
EarlyHorizon == 36000
\* the late scenario keeps the market quiet until LateStart, explores to MaxTime
LateStart == 118000
MaxTime == 218000
\* the long scenario keeps the market quiet until LongStart, explores to LongHorizon
LongStart == 720000
LongHorizon == 730000

----------------------------------------------------------------------------
(* Generic helpers *)

Null == <<>>

Some(v) == <<v>>

IsNull(o) == Len(o) = 0

Min(a, b) == IF a <= b THEN a ELSE b

Max(a, b) == IF a >= b THEN a ELSE b

Abs(x) == IF x < 0 THEN 0 - x ELSE x

SetMin(S) == CHOOSE x \in S : \A y \in S : x <= y

\* Array.prototype.slice(-n)
SliceLast(s, n) == IF Len(s) <= n THEN s ELSE SubSeq(s, Len(s) - n + 1, Len(s))

\* Array.prototype.slice(0, n)
SliceFirst(s, n) == IF Len(s) <= n THEN s ELSE SubSeq(s, 1, n)

RECURSIVE GCD(_, _)
GCD(a, b) == IF b = 0 THEN a ELSE GCD(b, a % b)

\* an exact fraction num/den (den > 0) in lowest terms
Frac(num, den) == LET g == GCD(Abs(num), den)
                  IN  IF g = 0 THEN [num |-> 0, den |-> 1]
                      ELSE [num |-> num \div g, den |-> den \div g]

----------------------------------------------------------------------------
(* Heuristic signal generator *)

IMBALANCE_THRESHOLD == 50
IMBALANCE_DELTA_THRESHOLD == 10
IMBALANCE_MOMENTUM == 150
PRICE_MOMENTUM_THRESHOLD == 10
PRICE_MOMENTUM_BONUS == 100
PRICE_MOMENTUM_PENALTY == 200
NEUTRAL_FLOOR == 300
MAX_CONFIDENCE == 950
ACCURACY_MIN_TOTAL == 5

confidenceDecay(timeframe) ==
    CASE timeframe = "15s" -> 0 [] timeframe = "30s" -> 50 [] timeframe = "60s" -> 100

\* let baseDirection = 'NEUTRAL'; if (imbalance > 0.05) ...; else if (imbalance < -0.05) ...
baseDirection(currentFeatures) ==
    IF currentFeatures.imbalance > IMBALANCE_THRESHOLD THEN "UP"
    ELSE IF currentFeatures.imbalance < 0 - IMBALANCE_THRESHOLD THEN "DOWN"
    ELSE "NEUTRAL"

\* a variant with three times the imbalance as base confidence
baseConfidence_tripled(currentFeatures) == Abs(currentFeatures.imbalance) * 3

\* let confidence = Math.abs(imbalance) * 1.5; imbalance is an even number of
\* thousandths, so the product is exact
baseConfidence(currentFeatures) == (Abs(currentFeatures.imbalance) * 3) \div 2

\* what the block 'if (previousFeatures) { ... }' adds to the confidence
imbalanceMomentum(currentFeatures, previousFeatures) ==
    IF IsNull(previousFeatures) THEN 0
    ELSE LET imbalanceDelta == currentFeatures.imbalance - previousFeatures[1].imbalance
             base == baseDirection(currentFeatures)
         IN  IF (imbalanceDelta > IMBALANCE_DELTA_THRESHOLD /\ base = "UP")
                \/ (imbalanceDelta < 0 - IMBALANCE_DELTA_THRESHOLD /\ base = "DOWN")
             THEN IMBALANCE_MOMENTUM
             ELSE IF (imbalanceDelta < 0 - IMBALANCE_DELTA_THRESHOLD /\ base = "UP")
                     \/ (imbalanceDelta > IMBALANCE_DELTA_THRESHOLD /\ base = "DOWN")
                  THEN 0 - IMBALANCE_MOMENTUM
             ELSE 0

\* a variant that takes off as much for a contradicting price move as it adds
\* for a confirming one
priceMomentum_symmetric(currentFeatures, priceChange) ==
    LET base == baseDirection(currentFeatures)
    IN  IF (priceChange > PRICE_MOMENTUM_THRESHOLD /\ base = "UP")
           \/ (priceChange < 0 - PRICE_MOMENTUM_THRESHOLD /\ base = "DOWN")
        THEN PRICE_MOMENTUM_BONUS
        ELSE IF (priceChange < 0 - PRICE_MOMENTUM_THRESHOLD /\ base = "UP")
                \/ (priceChange > PRICE_MOMENTUM_THRESHOLD /\ base = "DOWN")
             THEN 0 - PRICE_MOMENTUM_BONUS
        ELSE 0

\* what the price momentum block adds to the confidence
priceMomentum(currentFeatures, priceChange) ==
    LET base == baseDirection(currentFeatures)
    IN  IF (priceChange > PRICE_MOMENTUM_THRESHOLD /\ base = "UP")
           \/ (priceChange < 0 - PRICE_MOMENTUM_THRESHOLD /\ base = "DOWN")
        THEN PRICE_MOMENTUM_BONUS
        ELSE IF (priceChange < 0 - PRICE_MOMENTUM_THRESHOLD /\ base = "UP")
                \/ (priceChange > PRICE_MOMENTUM_THRESHOLD /\ base = "DOWN")
             THEN 0 - PRICE_MOMENTUM_PENALTY
        ELSE 0

\* a variant that reports the base direction whatever the confidence
finalDirection_unsuppressed(base, confidence) == base

\* let finalDirection = baseDirection; if (confidence < 0.3) finalDirection = 'NEUTRAL'
finalDirection(base, confidence) ==
    IF confidence < NEUTRAL_FLOOR THEN "NEUTRAL" ELSE base

\* const finalConfidence = Math.max(0, Math.min(0.95, confidence))
finalConfidence(confidence) == Max(0, Min(MAX_CONFIDENCE, confidence))

\* a variant that adjusts from the first resolved prediction on
accuracyAdjustment_fromFirst(accuracy) ==
    IF ~IsNull(accuracy) /\ accuracy[1].total > 0
    THEN [num |-> 100 * accuracy[1].accuracy.num - 50 * accuracy[1].accuracy.den,
          den |-> accuracy[1].accuracy.den]
    ELSE [num |-> 0, den |-> 1]

\* accuracy is Null or Some([correct, total, accuracy]), accuracy.accuracy being
\* the fraction num / den, so (accuracy.accuracy - 0.5) * 0.1 is
\* (100 * num - 50 * den) / den thousandths; the adjustment is returned as that
\* numerator and denominator
accuracyAdjustment(accuracy) ==
    IF ~IsNull(accuracy) /\ accuracy[1].total > ACCURACY_MIN_TOTAL
    THEN [num |-> 100 * accuracy[1].accuracy.num - 50 * accuracy[1].accuracy.den,
          den |-> accuracy[1].accuracy.den]
    ELSE [num |-> 0, den |-> 1]

\* a variant that reports the confidence without the last clamp
reportedConfidence_unclamped(confidence, decay, adjustment) ==
    LET num == (confidence - decay) * adjustment.den + adjustment.num
    IN  Frac(num, adjustment.den)

\* Math.max(0, Math.min(0.95, finalConfidence - confidenceDecay + accuracyAdjustment))
reportedConfidence(confidence, decay, adjustment) ==
    LET num == (confidence - decay) * adjustment.den + adjustment.num
    IN  Frac(Max(0, Min(MAX_CONFIDENCE * adjustment.den, num)), adjustment.den)

\* a variant that suppresses the direction after the horizon's decay
generateSmartOrderBookPrediction_decayFirst(timeframe, currentFeatures, previousFeatures, priceChange, accuracy, timestamp, id) ==
    LET confidence == baseConfidence(currentFeatures)
                      + imbalanceMomentum(currentFeatures, previousFeatures)
                      + priceMomentum(currentFeatures, priceChange)
    IN  [timeframe  |-> timeframe,
         direction  |-> finalDirection(baseDirection(currentFeatures),
                                       confidence - confidenceDecay(timeframe)),
         confidence |-> reportedConfidence(finalConfidence(confidence), confidenceDecay(timeframe),
                                           accuracyAdjustment(accuracy)),
         timestamp  |-> timestamp,
         id         |-> id]

generateSmartOrderBookPrediction(timeframe, currentFeatures, previousFeatures, priceChange, accuracy, timestamp, id) ==
    LET confidence == baseConfidence(currentFeatures)
                      + imbalanceMomentum(currentFeatures, previousFeatures)
                      + priceMomentum(currentFeatures, priceChange)
    IN  [timeframe  |-> timeframe,
         direction  |-> finalDirection(baseDirection(currentFeatures), confidence),
         confidence |-> reportedConfidence(finalConfidence(confidence), confidenceDecay(timeframe),
                                           accuracyAdjustment(accuracy)),
         timestamp  |-> timestamp,
         id         |-> id]

----------------------------------------------------------------------------
(* Accuracy aggregation *)

\* relevant is the set of positions the filter keeps
statsOver(outcomes, relevant) ==
    LET total == Cardinality(relevant)
        correct == Cardinality({i \in relevant : outcomes[i].status = "CORRECT"})
    IN  IF total > 0
        THEN Some([correct |-> correct, total |-> total, accuracy |-> Frac(correct, total)])
        ELSE Null

\* a variant that forgets the direction filter
orderBookAccuracyStats_countingNeutral(outcomes) ==
    [tf \in Timeframes |->
        statsOver(outcomes, {i \in 1..Len(outcomes) :
                                /\ outcomes[i].prediction.timeframe = tf
                                /\ outcomes[i].status # "PENDING"})]

\* the useMemo over the heuristic outcome history
orderBookAccuracyStats(outcomes) ==
    [tf \in Timeframes |->
        statsOver(outcomes, {i \in 1..Len(outcomes) :
                                /\ outcomes[i].prediction.timeframe = tf
                                /\ outcomes[i].prediction.direction # "NEUTRAL"
                                /\ outcomes[i].status # "PENDING"})]

\* the accuracy stats fetchPrediction sends to the oracle
aiAccuracyStats(outcomes) ==
    [tf \in Timeframes |->
        statsOver(outcomes, {i \in 1..Len(outcomes) :
                                /\ outcomes[i].prediction.timeframe = tf
                                /\ outcomes[i].status # "PENDING"})]

\* the useMemo of the PerformanceTracker component: a record for every horizon,
\* whose accuracy stays 0 while total is 0
accuracyStats(outcomes) ==
    [tf \in Timeframes |->
        LET completed == {i \in 1..Len(outcomes) :
                             /\ outcomes[i].status # "PENDING"
                             /\ outcomes[i].prediction.direction # "NEUTRAL"
                             /\ outcomes[i].prediction.timeframe = tf}
            total == Cardinality(completed)
            correct == Cardinality({i \in completed : outcomes[i].status = "CORRECT"})
        IN  [correct |-> correct, total |-> total,
             accuracy |-> IF total > 0 THEN Frac(correct, total) ELSE Frac(0, 1)]]

\* (x * 100).toFixed(1) of the fraction x, in tenths of a percent: the nearest
\* tenth, the larger one of two equally near
toFixed1(x) == (2000 * x.num + x.den) \div (2 * x.den)

\* the figure renderStat shows for one horizon: tenths of a percent, or 'N/A'
renderStat(stat) == IF stat.total > 0 THEN Some(toFixed1(stat.accuracy)) ELSE "N/A"

----------------------------------------------------------------------------
(* Outcome resolution *)

\* a variant that counts an unchanged price as UP
actualDirection_tieUp(latestPrice, priceAtPrediction) ==
    IF latestPrice >= priceAtPrediction THEN "UP" ELSE "DOWN"

actualDirection(latestPrice, priceAtPrediction) ==
    IF latestPrice > priceAtPrediction THEN "UP" ELSE "DOWN"

scoredStatus(latestPrice, priceAtPrediction, direction) ==
    IF actualDirection(latestPrice, priceAtPrediction) = direction
    THEN "CORRECT" ELSE "INCORRECT"

\* a variant that applies the shortest horizon to every timeframe
horizonElapsed_shortest(prediction, dateNow) ==
    dateNow - prediction.timestamp >= timeframeMap["15s"]

horizonElapsed(prediction, dateNow) ==
    dateNow - prediction.timestamp >= timeframeMap[prediction.timeframe]

\* a variant that scores an outcome again on every pass after its horizon
resolveAiOutcome_rescoring(outcome, latestPrice, dateNow) ==
    IF horizonElapsed(outcome.prediction, dateNow)
    THEN [outcome EXCEPT !.status = scoredStatus(latestPrice,
                                                 outcome.prediction.priceAtPrediction,
                                                 outcome.prediction.direction)]
    ELSE outcome

\* the callback of aiPredictionOutcomes.map in resolveAiOutcomes
resolveAiOutcome(outcome, latestPrice, dateNow) ==
    IF outcome.status = "PENDING" /\ horizonElapsed(outcome.prediction, dateNow)
    THEN [outcome EXCEPT !.status = scoredStatus(latestPrice,
                                                 outcome.prediction.priceAtPrediction,
                                                 outcome.prediction.direction)]
    ELSE outcome

\* a variant that takes the last sample at or after the timestamp
findPriceAtOrAfter_last(history, timestamp) ==
    LET hits == {i \in 1..Len(history) : history[i].timestamp >= timestamp}
    IN  IF hits = {} THEN Null ELSE Some(history[Len(history)].price)

\* a variant that takes the sample of the prediction's very millisecond
findPriceAtOrAfter_exact(history, timestamp) ==
    LET hits == {i \in 1..Len(history) : history[i].timestamp = timestamp}
    IN  IF hits = {} THEN Null ELSE Some(history[SetMin(hits)].price)

\* priceHistoryRef.current.find(p => p.timestamp >= timestamp): Null when none
findPriceAtOrAfter(history, timestamp) ==
    LET hits == {i \in 1..Len(history) : history[i].timestamp >= timestamp}
    IN  IF hits = {} THEN Null ELSE Some(history[SetMin(hits)].price)

\* a variant that scores a NEUTRAL prediction like a directional one
resolveOrderBookOutcome_scoringNeutral(outcome, latestPrice, history, dateNow) ==
    IF outcome.status = "PENDING" /\ horizonElapsed(outcome.prediction, dateNow)
    THEN LET priceAtPrediction == findPriceAtOrAfter(history, outcome.prediction.timestamp)
         IN  IF IsNull(priceAtPrediction) THEN outcome
             ELSE [outcome EXCEPT !.status = scoredStatus(latestPrice, priceAtPrediction[1],
                                                          outcome.prediction.direction)]
    ELSE outcome

\* the callback of orderBookOutcomes.map in resolveOrderBookOutcomes
resolveOrderBookOutcome(outcome, latestPrice, history, dateNow) ==
    IF outcome.status = "PENDING" /\ horizonElapsed(outcome.prediction, dateNow)
    THEN LET priceAtPrediction == findPriceAtOrAfter(history, outcome.prediction.timestamp)
         IN  IF IsNull(priceAtPrediction) THEN outcome
             ELSE IF outcome.prediction.direction = "NEUTRAL"
                  THEN [outcome EXCEPT !.status = "NEUTRAL"]
             ELSE [outcome EXCEPT !.status = scoredStatus(latestPrice, priceAtPrediction[1],
                                                          outcome.prediction.direction)]
    ELSE outcome

resolveAiOutcomes(outcomes, latestPrice, dateNow) ==
    [i \in 1..Len(outcomes) |-> resolveAiOutcome(outcomes[i], latestPrice, dateNow)]

resolveOrderBookOutcomes(outcomes, latestPrice, history, dateNow) ==
    [i \in 1..Len(outcomes) |-> resolveOrderBookOutcome(outcomes[i], latestPrice, history, dateNow)]

----------------------------------------------------------------------------
(* State updaters passed to the setState functions *)

\* a variant that keeps the oldest entries
appendPrice_keepingOldest(prev, newPriceData) ==
    SliceFirst(Append(prev, newPriceData), MAX_HISTORY_LENGTH)

\* prev => [...prev, newPriceData].slice(-MAX_HISTORY_LENGTH)
appendPrice(prev, newPriceData) == SliceLast(Append(prev, newPriceData), MAX_HISTORY_LENGTH)

\* a variant with a window of one oracle response
prependOutcomes_narrowWindow(prev, newOutcomes) == SliceFirst(newOutcomes \o prev, 3)

\* prev => [{prediction, status: 'PENDING'}, ...prev].slice(0, MAX_OUTCOME_HISTORY)
prependOutcomes(prev, newOutcomes) == SliceFirst(newOutcomes \o prev, MAX_OUTCOME_HISTORY)

\* prev => [...predictionsWithMetadata, ...prev].slice(0, MAX_PREDICTION_HISTORY_ITEMS)
prependPredictions(prev, predictions) ==
    SliceFirst(predictions \o prev, MAX_PREDICTION_HISTORY_ITEMS)

\* prev => prev.map(p => (p.timeframe === timeframe ? newPrediction : p))
replacePrediction(prev, newPrediction) ==
    [i \in 1..Len(prev) |->
        IF prev[i].timeframe = newPrediction.timeframe THEN newPrediction ELSE prev[i]]

\* prev => (prev + 1) % BINANCE_ENDPOINTS.length
rotateEndpoint(prev) == (prev + 1) % BINANCE_ENDPOINTS

----------------------------------------------------------------------------
(* The environment: the market the three price sources and the order-book  *)
(* source report on, and the oracle                                        *)

Sources == {"binance", "bybit", "kucoin"}

\* the market price levels, in cents
Prices == {299400, 300000, 300600}

\* what each source quotes for a market price: the exchanges differ by cents
Quote(source, price) ==
    CASE source = "binance" -> price [] source = "bybit" -> price + 6 [] source = "kucoin" -> price - 6

\* which price sources answer (outside an outage, when none does)
SourceModes == {Sources, {"bybit", "kucoin"}, {"bybit"}}

\* the order-book imbalance the order-book source reports (Null: it fails)
Books == {Null, Some(0), Some(400), Some(0 - 400)}

Directions == {"UP", "DOWN"}

\* what an oracle call ends with: one direction per timeframe, or an error
OracleAnswers == [Timeframes -> Directions]

NominalAnswer == [tf \in Timeframes |-> "UP"]

NoTimer == 0 - 1

\* An error text is modelled by the substrings it contains (case ignored, as the
\* code lower-cases before it looks) among those the code looks for.
Probes == {"429", "rate limit", "resource has been exhausted", "rate", "exhausted"}

ErrorTexts ==
    {text \in SUBSET Probes :
        /\ "rate limit" \in text => "rate" \in text
        /\ "resource has been exhausted" \in text => "exhausted" \in text}

\* String.prototype.includes
includes(text, probe) == probe \in text

\* the HTTP statuses of an error response that has no JSON body (a gateway's)
GatewayStatuses == {429, 500, 502, 503}

\* what can go wrong with an oracle call: the provider's SDK (or the parsing of
\* its answer) throws an error with some message in the backend; a gateway
\* answers in the backend's place; the request itself fails
OracleFaults ==
    [origin : {"provider"}, text : ErrorTexts, status : {0}]
    \cup [origin : {"gateway"}, text : {{}}, status : GatewayStatuses]
    \cup [origin : {"network"}, text : {{}}, status : {0}]

\* 'Rate limit reached from Gemini API.'
RateLimitReachedFromGemini == {"rate limit", "rate"}

\* 'Failed to get prediction from AI.'
FailedToGetPrediction == {}

\* the catch block of POST /api/predict
serverErrorResponse(errorMessage) ==
    IF includes(errorMessage, "429") \/ includes(errorMessage, "rate limit")
       \/ includes(errorMessage, "resource has been exhausted")
    THEN [status |-> 429, message |-> RateLimitReachedFromGemini, details |-> Some(errorMessage)]
    ELSE [status |-> 500, message |-> FailedToGetPrediction, details |-> Some(errorMessage)]

\* `Backend returned status: ${response.status}`
backendReturnedStatus(status) == IF status = 429 THEN {"429"} ELSE {}

\* the response getAiPrediction receives, with the body as response.json().catch(...)
\* yields it; Null when the request fails
backendResponse(fault) ==
    CASE fault.origin = "provider" -> Some(serverErrorResponse(fault.text))
      [] fault.origin = "gateway" ->
            Some([status |-> fault.status, message |-> backendReturnedStatus(fault.status),
                  details |-> Null])
      [] fault.origin = "network" -> Null

\* '429: Rate limit reached.'
RateLimitReached == {"429", "rate limit", "rate"}

\* 'Failed to fetch'
FailedToFetch == {}

\* the message of the error getAiPrediction throws
getAiPredictionError(fault) ==
    LET response == backendResponse(fault)
    IN  IF IsNull(response) THEN FailedToFetch
        ELSE LET errorData == response[1]
                 errorMessage == IF ~IsNull(errorData.details) THEN errorData.details[1]
                                 ELSE errorData.message
             IN  IF errorData.status = 429 \/ includes(errorMessage, "rate")
                    \/ includes(errorMessage, "exhausted")
                 THEN RateLimitReached
                 ELSE errorMessage

\* the test of fetchPrediction's catch block
isRateLimitError(message) == includes(message, "429") \/ includes(message, "rate limit")

----------------------------------------------------------------------------
VARIABLES
    now,                          \* Date.now()
    \* committed useState values
    priceHistory, currentPredictions, predictionHistory, aiPredictionOutcomes,
    orderBookOutcomes, isPredicting, error, currentEndpointIndex, orderBookFeatures,
    orderBookPredictions, isRateLimited,
    \* refs that do not mirror state
    previousOrderBookFeaturesRef, rateLimitTimeoutRef,
    \* setState calls not yet rendered, in call order
    queue,
    \* passive effects whose dependencies changed in the last commit
    pendingEffects,
    \* timers: the deadline of each, or NoTimer
    marketInterval, loopTimeout, initialTimeout, intervalId,
    \* requests in flight
    marketFetches, oracleCalls,
    \* the environment
    market, deviations, envQuietUntil, horizon,
    \* when the component was unmounted, or NoTimer while it is mounted
    tornDownAt,
    \* a call of the signal generator on its own: Null, or its arguments and result
    generatorCall,
    \* a call of getOrderBookFeatures on its own: Null, or the book and the result
    featuresCall,
    \* a call of a technical indicator on its own: Null, or its arguments and result
    indicatorCall,
    \* how the oracle call that has just settled went wrong, until the next render:
    \* Null, or the fault and the backend's response to it
    oracleFault,
    \* bookkeeping of the model: the serial numbers of the next price tick, the
    \* next heuristic prediction and the next oracle prediction (the field seq of
    \* a tick and the field id of a prediction are not in the program)
    nextTick, nextObId, nextAiId

stateVars == <<priceHistory, currentPredictions, predictionHistory, aiPredictionOutcomes,
               orderBookOutcomes, isPredicting, error, currentEndpointIndex,
               orderBookFeatures, orderBookPredictions, isRateLimited>>

timerVars == <<marketInterval, loopTimeout, initialTimeout, intervalId, rateLimitTimeoutRef>>

envVars == <<market, deviations, envQuietUntil, horizon, tornDownAt, generatorCall, featuresCall, indicatorCall, oracleFault>>

serialVars == <<nextTick, nextObId, nextAiId>>

vars == <<now, stateVars, previousOrderBookFeaturesRef, queue, pendingEffects, timerVars,
          marketFetches, oracleCalls, envVars, serialVars>>

----------------------------------------------------------------------------
(* The setState queue and the render that applies it *)

Update(hook, op, arg) == [hook |-> hook, op |-> op, arg |-> arg]

tornDown == tornDownAt # NoTimer

\* a variant in which setter calls of an unmounted component are still queued
setState_afterUnmount(updates) == queue \o updates

\* the queue after calls to useState setters: React discards the calls made to
\* the setters of a component that has been unmounted
setState(updates) == IF tornDown THEN queue ELSE queue \o updates

\* one queued setState call applied to the hook's current value
applyUpdate(u, prev) ==
    CASE u.op = "set"                -> u.arg
      [] u.op = "appendPrice"        -> appendPrice(prev, u.arg)
      [] u.op = "prependOutcomes"    -> prependOutcomes(prev, u.arg)
      [] u.op = "prependPredictions" -> prependPredictions(prev, u.arg)
      [] u.op = "replacePrediction"  -> replacePrediction(prev, u.arg)
      [] u.op = "rotateEndpoint"     -> rotateEndpoint(prev)

\* the value of a hook after the queued calls to its setter, in call order
RECURSIVE reduceQueue(_, _, _)
reduceQueue(q, hook, prev) ==
    IF q = <<>> THEN prev
    ELSE reduceQueue(Tail(q), hook,
                     IF Head(q).hook = hook THEN applyUpdate(Head(q), prev) ELSE prev)

Touched(q, hook) == \E i \in 1..Len(q) : q[i].hook = hook

\* a variant in which the effect depends on the price history alone
ResolveDeps_priceOnly == {"priceHistory"}

\* the dependencies of the outcome resolution effect
ResolveDeps == {"priceHistory", "aiPredictionOutcomes", "orderBookOutcomes"}

Render ==
    /\ queue # <<>>
    /\ pendingEffects = {}
    /\ priceHistory' = reduceQueue(queue, "priceHistory", priceHistory)
    /\ currentPredictions' = reduceQueue(queue, "currentPredictions", currentPredictions)
    /\ predictionHistory' = reduceQueue(queue, "predictionHistory", predictionHistory)
    /\ aiPredictionOutcomes' = reduceQueue(queue, "aiPredictionOutcomes", aiPredictionOutcomes)
    /\ orderBookOutcomes' = reduceQueue(queue, "orderBookOutcomes", orderBookOutcomes)
    /\ isPredicting' = reduceQueue(queue, "isPredicting", isPredicting)
    /\ error' = reduceQueue(queue, "error", error)
    /\ currentEndpointIndex' = reduceQueue(queue, "currentEndpointIndex", currentEndpointIndex)
    /\ orderBookFeatures' = reduceQueue(queue, "orderBookFeatures", orderBookFeatures)
    /\ orderBookPredictions' = reduceQueue(queue, "orderBookPredictions", orderBookPredictions)
    /\ isRateLimited' = reduceQueue(queue, "isRateLimited", isRateLimited)
    /\ queue' = <<>>
    /\ pendingEffects' =
           (IF currentEndpointIndex' # currentEndpointIndex THEN {"marketData"} ELSE {})
           \cup (IF \E h \in ResolveDeps : Touched(queue, h) THEN {"resolve"} ELSE {})
    /\ oracleFault' = Null
    /\ UNCHANGED <<now, previousOrderBookFeaturesRef, timerVars, marketFetches, oracleCalls,
                   market, deviations, envQuietUntil, horizon, tornDownAt, generatorCall, featuresCall, indicatorCall,
                   serialVars>>

----------------------------------------------------------------------------
(* Market data refresh *)

Sum3(a, b, c) == a + b + c

\* the open time of the one-second candle Binance returns
klineOpen(dateNow) == (dateNow \div KLINE_INTERVAL) * KLINE_INTERVAL

\* a variant that divides by the number of sources, answering or not
averagePrice_overAllSources(answered, price) ==
    LET Q(src) == IF src \in answered THEN Quote(src, price) ELSE 0
    IN  Sum3(Q("binance"), Q("bybit"), Q("kucoin")) \div Cardinality(Sources)

\* prices.reduce((acc, p) => acc + p, 0) / prices.length over the sources that answered
averagePrice(answered, price) ==
    LET Q(src) == IF src \in answered THEN Quote(src, price) ELSE 0
    IN  Sum3(Q("binance"), Q("bybit"), Q("kucoin")) \div Cardinality(answered)

newPriceData(answered, price, dateNow, seq) ==
    LET avg == averagePrice(answered, price)
        binanceResult == "binance" \in answered
    IN  [timestamp |-> IF binanceResult THEN klineOpen(dateNow) ELSE dateNow,
         price     |-> avg,
         high      |-> IF binanceResult THEN Quote("binance", price) ELSE avg,
         low       |-> IF binanceResult THEN Quote("binance", price) ELSE avg,
         seq       |-> seq]

\* the price sources that answer a request at dateNow
answering(m, dateNow) == IF dateNow < m.outageUntil THEN {} ELSE m.up

\* a variant that clears the features when the order-book source fails
marketDataUpdates_clearingFeatures(m, dateNow, seq) ==
    LET answered == answering(m, dateNow)
    IN  (IF "binance" \in answered THEN <<>>
         ELSE <<Update("currentEndpointIndex", "rotateEndpoint", Null)>>)
        \o (IF IsNull(m.book) THEN <<Update("orderBookFeatures", "set", Null)>>
            ELSE <<Update("orderBookFeatures", "set", Some([imbalance |-> m.book[1]]))>>)
        \o (IF answered = {} THEN <<>>
            ELSE <<Update("priceHistory", "appendPrice",
                          newPriceData(answered, m.price, dateNow, seq))>>)

\* the setState calls of one fetchMarketData run once its four requests have settled
marketDataUpdates(m, dateNow, seq) ==
    LET answered == answering(m, dateNow)
    IN  (IF "binance" \in answered THEN <<>>
         ELSE <<Update("currentEndpointIndex", "rotateEndpoint", Null)>>)
        \o (IF IsNull(m.book) THEN <<>>
            ELSE <<Update("orderBookFeatures", "set", Some([imbalance |-> m.book[1]]))>>)
        \o (IF answered = {} THEN <<>>
            ELSE <<Update("priceHistory", "appendPrice",
                          newPriceData(answered, m.price, dateNow, seq))>>)

\* setInterval(fetchMarketData, 2000) fires: the requests are sent
MarketIntervalFires ==
    /\ marketInterval = now
    /\ marketInterval' = now + MARKET_DATA_INTERVAL
    /\ marketFetches' = Append(marketFetches, [due |-> now + FetchLatency])
    /\ UNCHANGED <<now, stateVars, previousOrderBookFeaturesRef, queue, pendingEffects,
                   loopTimeout, initialTimeout, intervalId, rateLimitTimeoutRef,
                   oracleCalls, envVars, serialVars>>

RemoveAt(s, i) == SubSeq(s, 1, i - 1) \o SubSeq(s, i + 1, Len(s))

\* a variant that keeps the first snapshot it saw as the previous one
fetchMarketData_keepingOldest ==
    \E i \in 1..Len(marketFetches) :
        /\ marketFetches[i].due = now
        /\ marketFetches' = RemoveAt(marketFetches, i)
        /\ previousOrderBookFeaturesRef' =
               IF IsNull(previousOrderBookFeaturesRef) THEN orderBookFeatures
               ELSE previousOrderBookFeaturesRef
        /\ queue' = setState(marketDataUpdates(market, now, nextTick))
        /\ nextTick' = IF answering(market, now) = {} \/ tornDown THEN nextTick
                       ELSE nextTick + 1
        /\ UNCHANGED <<now, stateVars, pendingEffects, timerVars, oracleCalls, envVars,
                       nextObId, nextAiId>>

\* Promise.all settles: the rest of fetchMarketData runs
fetchMarketData ==
    \E i \in 1..Len(marketFetches) :
        /\ marketFetches[i].due = now
        /\ marketFetches' = RemoveAt(marketFetches, i)
        /\ previousOrderBookFeaturesRef' = orderBookFeatures
        /\ queue' = setState(marketDataUpdates(market, now, nextTick))
        /\ nextTick' = IF answering(market, now) = {} \/ tornDown THEN nextTick
                       ELSE nextTick + 1
        /\ UNCHANGED <<now, stateVars, pendingEffects, timerVars, oracleCalls, envVars,
                       nextObId, nextAiId>>

\* the market moves or a source goes down or comes back, between two refreshes
EnvChange ==
    /\ deviations < MaxDeviations
    /\ now >= envQuietUntil
    /\ \E i \in 1..Len(marketFetches) : marketFetches[i].due = now
    /\ \E m \in [price : Prices, up : SourceModes, book : Books,
                  outageUntil : {market.outageUntil, now + OutageLength}] :
          /\ Cardinality({f \in DOMAIN m : m[f] # market[f]}) = 1
          /\ market' = m
    /\ deviations' = deviations + 1
    /\ UNCHANGED <<now, stateVars, previousOrderBookFeaturesRef, queue, pendingEffects,
                   timerVars, marketFetches, oracleCalls, envQuietUntil, horizon,
                   generatorCall, featuresCall, indicatorCall, oracleFault,
                   tornDownAt, serialVars>>

----------------------------------------------------------------------------
(* Heuristic prediction loops *)

loopInterval == timeframeMap

\* a variant that hands the generator the statistics of the shortest horizon
newPrediction_firstHorizonStats(timeframe, features, prevFeatures, history, currentAccuracyStats, dateNow, id) ==
    generateSmartOrderBookPrediction(
        timeframe, features, prevFeatures,
        history[Len(history)].price - history[Len(history) - 1].price,
        currentAccuracyStats[TimeframeOrder[1]], dateNow, id)

\* the prediction update() makes from what it read from the refs: the price
\* change over the last two samples and the statistics of the loop's horizon
newPrediction(timeframe, features, prevFeatures, history, currentAccuracyStats, dateNow, id) ==
    LET priceChange == history[Len(history)].price - history[Len(history) - 1].price
    IN  generateSmartOrderBookPrediction(timeframe, features, prevFeatures, priceChange,
                                         currentAccuracyStats[timeframe], dateNow, id)

\* a variant whose loops keep the statistics they read when they were started
loopUpdates_statsAtMount(timeframe, dateNow) ==
    LET prediction == newPrediction(timeframe, orderBookFeatures[1], previousOrderBookFeaturesRef,
                                    priceHistory, [tf \in Timeframes |-> Null],
                                    dateNow, nextObId)
    IN  <<Update("orderBookPredictions", "replacePrediction", prediction),
          Update("orderBookOutcomes", "prependOutcomes",
                 <<[prediction |-> prediction, status |-> "PENDING"]>>)>>

\* the body of update() when features and two price samples exist
loopUpdates(timeframe, dateNow) ==
    LET prediction == newPrediction(timeframe, orderBookFeatures[1], previousOrderBookFeaturesRef,
                                    priceHistory, orderBookAccuracyStats(orderBookOutcomes),
                                    dateNow, nextObId)
    IN  <<Update("orderBookPredictions", "replacePrediction", prediction),
          Update("orderBookOutcomes", "prependOutcomes",
                 <<[prediction |-> prediction, status |-> "PENDING"]>>)>>

\* a variant whose loops wait for the oracle: a tick during a call or a cooldown
\* makes no prediction
update_waitingForOracle(timeframe) ==
    /\ loopTimeout[timeframe] = now
    /\ IF ~IsNull(orderBookFeatures) /\ Len(priceHistory) > 1
          /\ oracleCalls = <<>> /\ ~isRateLimited
       THEN /\ queue' = setState(loopUpdates(timeframe, now))
            /\ nextObId' = nextObId + 1
       ELSE UNCHANGED <<queue, nextObId>>
    /\ loopTimeout' = [loopTimeout EXCEPT ![timeframe] = now + loopInterval[timeframe]]
    /\ UNCHANGED <<now, stateVars, previousOrderBookFeaturesRef, pendingEffects,
                   marketInterval, initialTimeout, intervalId, rateLimitTimeoutRef,
                   marketFetches, oracleCalls, envVars, nextTick, nextAiId>>

\* one tick of createPredictionLoop(timeframe, interval)
update(timeframe) ==
    /\ loopTimeout[timeframe] = now
    /\ IF ~IsNull(orderBookFeatures) /\ Len(priceHistory) > 1
       THEN /\ queue' = setState(loopUpdates(timeframe, now))
            /\ nextObId' = nextObId + 1
       ELSE UNCHANGED <<queue, nextObId>>
    /\ loopTimeout' = [loopTimeout EXCEPT ![timeframe] = now + loopInterval[timeframe]]
    /\ UNCHANGED <<now, stateVars, previousOrderBookFeaturesRef, pendingEffects,
                   marketInterval, initialTimeout, intervalId, rateLimitTimeoutRef,
                   marketFetches, oracleCalls, envVars, nextTick, nextAiId>>

----------------------------------------------------------------------------
(* Oracle prediction loop *)

\* an oracle call deviates from the nominal one (fast, successful, all UP) only
\* while the budget of deviations lasts
MayDeviate == deviations < MaxDeviations /\ now >= envQuietUntil

\* a variant without the rate-limit guard
fetchPrediction_ignoringCooldown ==
    IF Len(priceHistory) < MIN_ORACLE_SAMPLES
    THEN UNCHANGED <<queue, oracleCalls, deviations>>
    ELSE \E slow \in BOOLEAN :
            /\ slow => MayDeviate
            /\ deviations' = deviations + (IF slow THEN 1 ELSE 0)
            /\ queue' = setState(<<Update("isPredicting", "set", TRUE),
                                   Update("error", "set", "null")>>)
            /\ oracleCalls' = Append(oracleCalls,
                   [due |-> now + (IF slow THEN OracleSlow ELSE OracleFast),
                    priceAtPrediction |-> priceHistory[Len(priceHistory)].price,
                    accuracyStats |-> aiAccuracyStats(aiPredictionOutcomes)])

\* a variant that asks for one sample only
fetchPrediction_anySample ==
    IF isRateLimited \/ Len(priceHistory) < 1
    THEN UNCHANGED <<queue, oracleCalls, deviations>>
    ELSE \E slow \in BOOLEAN :
            /\ slow => MayDeviate
            /\ deviations' = deviations + (IF slow THEN 1 ELSE 0)
            /\ queue' = setState(<<Update("isPredicting", "set", TRUE),
                                   Update("error", "set", "null")>>)
            /\ oracleCalls' = Append(oracleCalls,
                   [due |-> now + (IF slow THEN OracleSlow ELSE OracleFast),
                    priceAtPrediction |-> priceHistory[Len(priceHistory)].price,
                    accuracyStats |-> aiAccuracyStats(aiPredictionOutcomes)])

\* fetchPrediction up to its await: the guards, the in-flight flag, the request
fetchPrediction ==
    IF isRateLimited \/ Len(priceHistory) < MIN_ORACLE_SAMPLES
    THEN UNCHANGED <<queue, oracleCalls, deviations>>
    ELSE \E slow \in BOOLEAN :
            /\ slow => MayDeviate
            /\ deviations' = deviations + (IF slow THEN 1 ELSE 0)
            /\ queue' = setState(<<Update("isPredicting", "set", TRUE),
                                   Update("error", "set", "null")>>)
            /\ oracleCalls' = Append(oracleCalls,
                   [due |-> now + (IF slow THEN OracleSlow ELSE OracleFast),
                    priceAtPrediction |-> priceHistory[Len(priceHistory)].price,
                    accuracyStats |-> aiAccuracyStats(aiPredictionOutcomes)])

\* the 5 s warm-up timeout fires: first call, and the 30 s interval is set
InitialTimeoutFires ==
    /\ initialTimeout = now
    /\ fetchPrediction
    /\ initialTimeout' = NoTimer
    /\ intervalId' = now + PREDICTION_INTERVAL
    /\ UNCHANGED <<now, stateVars, previousOrderBookFeaturesRef, pendingEffects,
                   marketInterval, loopTimeout, rateLimitTimeoutRef, marketFetches,
                   market, envQuietUntil, horizon, generatorCall, featuresCall, indicatorCall, oracleFault,
                   tornDownAt, serialVars>>

\* setInterval(fetchPrediction, PREDICTION_INTERVAL) fires
PredictionIntervalFires ==
    /\ intervalId = now
    /\ fetchPrediction
    /\ intervalId' = now + PREDICTION_INTERVAL
    /\ UNCHANGED <<now, stateVars, previousOrderBookFeaturesRef, pendingEffects,
                   marketInterval, loopTimeout, initialTimeout, rateLimitTimeoutRef,
                   marketFetches, market, envQuietUntil, horizon, generatorCall, featuresCall, indicatorCall, oracleFault,
                   tornDownAt, serialVars>>

\* results.map(p => ({ ...p, timestamp: now, priceAtPrediction })); the oracle's
\* confidence and reasoning are carried along unread and are left out
predictionsWithMetadata(answer, dateNow, priceAtPrediction, firstId) ==
    [i \in 1..Len(TimeframeOrder) |->
        [timeframe |-> TimeframeOrder[i], direction |-> answer[TimeframeOrder[i]],
         timestamp |-> dateNow, priceAtPrediction |-> priceAtPrediction,
         id |-> firstId + Len(TimeframeOrder) - i]]

pendingOutcomes(predictions) ==
    [i \in 1..Len(predictions) |-> [prediction |-> predictions[i], status |-> "PENDING"]]

\* a variant that stamps the predictions with the latest price at the response
predictionSucceeds_latestPrice(call, answer) ==
    LET predictions == predictionsWithMetadata(answer, now,
                                               priceHistory[Len(priceHistory)].price, nextAiId)
    IN  /\ queue' = setState(
              <<Update("currentPredictions", "set", Some(predictions)),
                Update("predictionHistory", "prependPredictions", predictions),
                Update("aiPredictionOutcomes", "prependOutcomes", pendingOutcomes(predictions)),
                Update("isPredicting", "set", FALSE)>>)
        /\ nextAiId' = IF tornDown THEN nextAiId ELSE nextAiId + Len(predictions)
        /\ UNCHANGED rateLimitTimeoutRef

\* the try block of fetchPrediction after a successful await, and its finally
predictionSucceeds(call, answer) ==
    LET predictions == predictionsWithMetadata(answer, now, call.priceAtPrediction, nextAiId)
    IN  /\ queue' = setState(
              <<Update("currentPredictions", "set", Some(predictions)),
                Update("predictionHistory", "prependPredictions", predictions),
                Update("aiPredictionOutcomes", "prependOutcomes", pendingOutcomes(predictions)),
                Update("isPredicting", "set", FALSE)>>)
        /\ nextAiId' = IF tornDown THEN nextAiId ELSE nextAiId + Len(predictions)
        /\ UNCHANGED rateLimitTimeoutRef

\* the catch block for a rate-limit error, and the finally
predictionRateLimited ==
    /\ queue' = setState(
          <<Update("error", "set", "rate_limit"),
            Update("isRateLimited", "set", TRUE),
            Update("currentPredictions", "set", Null),
            Update("isPredicting", "set", FALSE)>>)
    /\ rateLimitTimeoutRef' = now + RATE_LIMIT_COOLDOWN
    /\ UNCHANGED nextAiId

\* a variant that pauses the oracle after any error
predictionFails_pausing ==
    /\ queue' = setState(
          <<Update("error", "set", "failed"),
            Update("isRateLimited", "set", TRUE),
            Update("currentPredictions", "set", Null),
            Update("isPredicting", "set", FALSE)>>)
    /\ UNCHANGED <<rateLimitTimeoutRef, nextAiId>>

\* the catch block for any other error, and the finally
predictionFails ==
    /\ queue' = setState(
          <<Update("error", "set", "failed"),
            Update("currentPredictions", "set", Null),
            Update("isPredicting", "set", FALSE)>>)
    /\ UNCHANGED <<rateLimitTimeoutRef, nextAiId>>

\* getAiPrediction settles
OracleResponds ==
    \E i \in 1..Len(oracleCalls) :
        /\ oracleCalls[i].due = now
        /\ oracleCalls' = RemoveAt(oracleCalls, i)
        /\ \E kind \in {"nominal", "answer", "fault"} :
              /\ kind # "nominal" => MayDeviate
              /\ deviations' = deviations + (IF kind = "nominal" THEN 0 ELSE 1)
              /\ CASE kind = "nominal" ->
                        /\ predictionSucceeds(oracleCalls[i], NominalAnswer)
                        /\ oracleFault' = Null
                   [] kind = "answer" ->
                        /\ \E answer \in OracleAnswers \ {NominalAnswer} :
                              predictionSucceeds(oracleCalls[i], answer)
                        /\ oracleFault' = Null
                   [] kind = "fault" ->
                        \E fault \in OracleFaults :
                            /\ IF isRateLimitError(getAiPredictionError(fault))
                               THEN predictionRateLimited
                               ELSE predictionFails
                            /\ oracleFault' =
                                  IF tornDown THEN Null
                                  ELSE Some([fault |-> fault, response |-> backendResponse(fault)])
        /\ UNCHANGED <<now, stateVars, previousOrderBookFeaturesRef, pendingEffects,
                       marketInterval, loopTimeout, initialTimeout, intervalId,
                       marketFetches, market, envQuietUntil, horizon, generatorCall, featuresCall, indicatorCall, tornDownAt,
                       nextTick, nextObId>>

\* the cooldown timeout set by the rate-limit branch fires
RateLimitTimeoutFires ==
    /\ rateLimitTimeoutRef = now
    /\ rateLimitTimeoutRef' = NoTimer
    /\ queue' = setState(<<Update("isRateLimited", "set", FALSE),
                           Update("error", "set", "null")>>)
    /\ UNCHANGED <<now, stateVars, previousOrderBookFeaturesRef, pendingEffects,
                   marketInterval, loopTimeout, initialTimeout, intervalId,
                   marketFetches, oracleCalls, envVars, serialVars>>

----------------------------------------------------------------------------
(* Passive effects *)

\* a variant that commits what it computed without comparing
resolutionUpdates_alwaysCommitting(dateNow) ==
    IF priceHistory = <<>> THEN <<>>
    ELSE LET latestPrice == priceHistory[Len(priceHistory)].price
             updatedAi == resolveAiOutcomes(aiPredictionOutcomes, latestPrice, dateNow)
             updatedOb == resolveOrderBookOutcomes(orderBookOutcomes, latestPrice,
                                                   priceHistory, dateNow)
         IN  (IF aiPredictionOutcomes # <<>>
              THEN <<Update("aiPredictionOutcomes", "set", updatedAi)>> ELSE <<>>)
             \o (IF orderBookOutcomes # <<>>
                 THEN <<Update("orderBookOutcomes", "set", updatedOb)>> ELSE <<>>)

\* the setState calls of the outcome resolution effect run at dateNow
resolutionUpdates(dateNow) ==
    IF priceHistory = <<>> THEN <<>>
    ELSE LET latestPrice == priceHistory[Len(priceHistory)].price
             updatedAi == resolveAiOutcomes(aiPredictionOutcomes, latestPrice, dateNow)
             updatedOb == resolveOrderBookOutcomes(orderBookOutcomes, latestPrice,
                                                   priceHistory, dateNow)
         IN  (IF updatedAi # aiPredictionOutcomes
              THEN <<Update("aiPredictionOutcomes", "set", updatedAi)>> ELSE <<>>)
             \o (IF updatedOb # orderBookOutcomes
                 THEN <<Update("orderBookOutcomes", "set", updatedOb)>> ELSE <<>>)

\* the effects of the last commit run: the market data effect (its dependency is
\* currentEndpointIndex) clears its interval, fetches at once and sets a new
\* interval; the outcome resolution effect runs one pass
FlushPassiveEffects ==
    /\ pendingEffects # {}
    /\ pendingEffects' = {}
    /\ IF "marketData" \in pendingEffects
       THEN /\ marketInterval' = now + MARKET_DATA_INTERVAL
            /\ marketFetches' = Append(marketFetches, [due |-> now + FetchLatency])
       ELSE UNCHANGED <<marketInterval, marketFetches>>
    /\ IF "resolve" \in pendingEffects
       THEN queue' = setState(resolutionUpdates(now))
       ELSE UNCHANGED queue
    /\ UNCHANGED <<now, stateVars, previousOrderBookFeaturesRef, loopTimeout, initialTimeout,
                   intervalId, rateLimitTimeoutRef, oracleCalls, envVars, serialVars>>

----------------------------------------------------------------------------
(* Teardown *)

\* the session is torn down in a quiet market, or while the oracle is busy or
\* cooling down
TeardownPoint ==
    /\ now >= envQuietUntil
    /\ deviations = 0 \/ oracleCalls # <<>> \/ rateLimitTimeoutRef # NoTimer

\* the calls of a setter, with one updater, that are discarded unprocessed; the
\* serial numbers of their entries are taken back
discarded(hook, op) ==
    Cardinality({i \in 1..Len(queue) : queue[i].hook = hook /\ queue[i].op = op})

\* the component unmounts: the cleanup of every effect runs.  The market data
\* effect clears its interval, each loop clears its pending timeout, the oracle
\* effect clears the warm-up timeout and the cooldown timeout; the interval set
\* inside the warm-up callback is not cleared (what that callback returns is
\* dropped).  Setter calls and passive effects not yet processed are discarded
\* with the component; requests in flight stay in flight.
Teardown ==
    /\ ~tornDown
    /\ TeardownPoint
    /\ tornDownAt' = now
    /\ marketInterval' = NoTimer
    /\ loopTimeout' = [tf \in Timeframes |-> NoTimer]
    /\ initialTimeout' = NoTimer
    /\ rateLimitTimeoutRef' = NoTimer
    /\ queue' = <<>>
    /\ pendingEffects' = {}
    /\ nextTick' = nextTick - discarded("priceHistory", "appendPrice")
    /\ nextObId' = nextObId - discarded("orderBookOutcomes", "prependOutcomes")
    /\ nextAiId' = nextAiId
                   - Len(TimeframeOrder) * discarded("aiPredictionOutcomes", "prependOutcomes")
    /\ UNCHANGED <<now, stateVars, previousOrderBookFeaturesRef, intervalId, marketFetches,
                   oracleCalls, market, deviations, envQuietUntil, horizon, generatorCall, featuresCall, indicatorCall,
                   oracleFault>>

----------------------------------------------------------------------------
(* Time *)

Deadlines ==
    ({marketInterval, initialTimeout, intervalId, rateLimitTimeoutRef}
        \cup {loopTimeout[tf] : tf \in Timeframes}
        \cup {marketFetches[i].due : i \in 1..Len(marketFetches)}
        \cup {oracleCalls[i].due : i \in 1..Len(oracleCalls)}) \ {NoTimer}

\* nothing is due and React has nothing to do: the clock moves to the next deadline
AdvanceTime ==
    /\ queue = <<>>
    /\ pendingEffects = {}
    /\ \A d \in Deadlines : d > now
    /\ Deadlines # {}
    /\ SetMin(Deadlines) <= horizon
    /\ now' = SetMin(Deadlines)
    /\ UNCHANGED <<stateVars, previousOrderBookFeaturesRef, queue, pendingEffects, timerVars,
                   marketFetches, oracleCalls, envVars, serialVars>>

----------------------------------------------------------------------------
(* The session *)

Jitters == {LOOP_JITTER_BASE + k * JitterStep : k \in 0..((LOOP_JITTER_SPAN - 1) \div JitterStep)}

\* three draws of Math.random() do not coincide
DistinctJitters == {j \in [Timeframes -> Jitters] : \A a, b \in Timeframes : a # b => j[a] # j[b]}

\* the state once the component has mounted and its effects have run: the first
\* market data request is in flight and every timer is set (the loops' first
\* timeouts, at 2500 + Math.random() * 500, are drawn in Init)
Mounted ==
    /\ now = 0
    /\ priceHistory = <<>>
    /\ currentPredictions = Null
    /\ predictionHistory = <<>>
    /\ aiPredictionOutcomes = <<>>
    /\ orderBookOutcomes = <<>>
    /\ isPredicting = FALSE
    /\ error = "null"
    /\ currentEndpointIndex = 0
    /\ orderBookFeatures = Null
    /\ orderBookPredictions =
           [i \in 1..Len(TimeframeOrder) |->
               [timeframe |-> TimeframeOrder[i], direction |-> "NEUTRAL",
                confidence |-> Frac(0, 1), timestamp |-> 0, id |-> 0]]
    /\ isRateLimited = FALSE
    /\ previousOrderBookFeaturesRef = Null
    /\ rateLimitTimeoutRef = NoTimer
    /\ queue = <<>>
    /\ pendingEffects = {}
    /\ marketInterval = MARKET_DATA_INTERVAL
    /\ marketFetches = <<[due |-> FetchLatency]>>
    /\ initialTimeout = ORACLE_WARMUP
    /\ intervalId = NoTimer
    /\ oracleCalls = <<>>
    /\ nextTick = 1
    /\ nextObId = 1
    /\ nextAiId = 1

\* the draw of the late scenario: no loop fires at the instant of another event
LateJitter == [tf \in Timeframes |->
                 LOOP_JITTER_BASE
                 + (CASE tf = "15s" -> 1 [] tf = "30s" -> 2 [] tf = "60s" -> 3) * (JitterStep \div 2)]

QuietMarket == [price |-> 300000, up |-> Sources, book |-> Some(400), outageUntil |-> 0]

\* Three scenarios of one session, all from the mounted state.  Early: the market
\* may change from the start, and the session is followed to EarlyHorizon.  Late:
\* the market is quiet (one price, steady buy pressure) until LateStart, when the
\* price history is long enough for the oracle, and the session is followed to
\* MaxTime.  Long: the market is quiet until LongStart and the session is followed
\* to LongHorizon, by when every bounded history has overflowed.
Init ==
    /\ Mounted
    /\ deviations = 0
    /\ tornDownAt = NoTimer
    /\ generatorCall = Null
    /\ featuresCall = Null
    /\ indicatorCall = Null
    /\ oracleFault = Null
    /\ \/ /\ envQuietUntil = 0
          /\ horizon = EarlyHorizon
          /\ loopTimeout \in DistinctJitters
          /\ market \in [price : {300000}, up : {Sources}, book : Books, outageUntil : {0}]
       \/ /\ envQuietUntil = LateStart
          /\ horizon = MaxTime
          /\ loopTimeout = LateJitter
          /\ market = QuietMarket
       \/ /\ envQuietUntil = LongStart
          /\ horizon = LongHorizon
          /\ loopTimeout = LateJitter
          /\ market = QuietMarket

Next ==
    \/ MarketIntervalFires
    \/ fetchMarketData
    \/ EnvChange
    \/ \E tf \in Timeframes : update(tf)
    \/ InitialTimeoutFires
    \/ PredictionIntervalFires
    \/ OracleResponds
    \/ RateLimitTimeoutFires
    \/ Render
    \/ FlushPassiveEffects
    \/ Teardown
    \/ AdvanceTime

Spec == Init /\ [][Next]_vars

\* The running session under the scheduling of its host: the component stays
\* mounted and the sources go on answering.  The event loop runs every timer
\* callback that is due and every settled request's continuation, React renders
\* the waiting setter calls and runs the effects of each commit, and time goes
\* on: a step of the session that can be taken is taken.
Progress ==
    \/ MarketIntervalFires
    \/ fetchMarketData
    \/ \E tf \in Timeframes : update(tf)
    \/ InitialTimeoutFires
    \/ PredictionIntervalFires
    \/ OracleResponds
    \/ RateLimitTimeoutFires
    \/ Render
    \/ FlushPassiveEffects
    \/ AdvanceTime

\* the markets of the running session: steady buy pressure, or a balanced book
\* (whose signals are NEUTRAL)
LiveMarkets == {QuietMarket, [QuietMarket EXCEPT !.book = Some(0)]}

\* the running session is followed to MaxTime; its oracle may deviate once from
\* LateStart on
LiveInit ==
    /\ Mounted
    /\ deviations = 0
    /\ tornDownAt = NoTimer
    /\ generatorCall = Null
    /\ featuresCall = Null
    /\ indicatorCall = Null
    /\ oracleFault = Null
    /\ envQuietUntil = LateStart
    /\ horizon = MaxTime
    /\ loopTimeout = LateJitter
    /\ market \in LiveMarkets

LiveSpec == LiveInit /\ [][Progress]_vars /\ WF_vars(Progress)

----------------------------------------------------------------------------
(* The signal generator on its own *)

\* the order-book imbalances tried, in thousandths: the ends of the range, both
\* sides of the direction threshold, of the confidence floor and of the cap
Imbalances == {0 - 1000, 0 - 640, 0 - 400, 0 - 300, 0 - 200, 0 - 100, 0 - 60, 0 - 50, 0,
               50, 60, 100, 200, 300, 400, 640, 1000}

\* the changes of imbalance since the previous snapshot, in thousandths
ImbalanceDeltas == {0 - 20, 0 - 10, 0, 10, 20}

\* the changes of price over the last two samples, in cents
PriceChanges == {0 - 20, 0 - 10, 0, 10, 20}

\* the statistics of a horizon with correct hits out of total resolved signals
accuracyOf(correct, total) ==
    Some([correct |-> correct, total |-> total, accuracy |-> Frac(correct, total)])

AccuracyCases == <<Null, accuracyOf(5, 5), accuracyOf(6, 6), accuracyOf(1, 6), accuracyOf(0, 8)>>

\* the tables of statistics tried: the horizons have different statistics
AccuracyTables ==
    {[tf \in Timeframes |->
         AccuracyCases[((k + (CHOOSE i \in 1..Len(TimeframeOrder) : TimeframeOrder[i] = tf))
                        % Len(AccuracyCases)) + 1]] : k \in 0..(Len(AccuracyCases) - 1)}

\* the last two price samples, the later one priceChange above the earlier one
lastSamples(priceChange) ==
    <<newPriceData(Sources, QuietMarket.price, 0, 1),
      newPriceData(Sources, QuietMarket.price + priceChange, MARKET_DATA_INTERVAL, 2)>>

\* what a tick of a loop reads from the refs
GeneratorCalls ==
    {[timeframe |-> tf, features |-> [imbalance |-> imbalance],
      prevFeatures |-> IF IsNull(delta) THEN Null ELSE Some([imbalance |-> imbalance - delta[1]]),
      history |-> lastSamples(priceChange), currentAccuracyStats |-> table, result |-> Null] :
        tf \in Timeframes, imbalance \in Imbalances,
        delta \in {Null} \cup {Some(d) : d \in ImbalanceDeltas},
        priceChange \in PriceChanges, table \in AccuracyTables}

SignalInit ==
    /\ Mounted
    /\ deviations = 0
    /\ tornDownAt = NoTimer
    /\ envQuietUntil = 0
    /\ horizon = 0
    /\ loopTimeout = LateJitter
    /\ market = QuietMarket
    /\ oracleFault = Null
    /\ featuresCall = Null
    /\ indicatorCall = Null
    /\ generatorCall \in {Some(call) : call \in
           {c \in GeneratorCalls :
               IsNull(c.prevFeatures) \/ Abs(c.prevFeatures[1].imbalance) <= 1000}}

\* the generator is applied to the arguments
Generate ==
    /\ ~IsNull(generatorCall)
    /\ IsNull(generatorCall[1].result)
    /\ LET call == generatorCall[1]
       IN  generatorCall' =
               Some([call EXCEPT !.result =
                        Some(newPrediction(call.timeframe, call.features, call.prevFeatures,
                                           call.history, call.currentAccuracyStats, now, nextObId))])
    /\ UNCHANGED <<now, stateVars, previousOrderBookFeaturesRef, queue, pendingEffects, timerVars,
                   marketFetches, oracleCalls, market, deviations, envQuietUntil, horizon,
                   tornDownAt, oracleFault, featuresCall, indicatorCall, serialVars>>

SignalNext == Generate

SignalSpec == SignalInit /\ [][SignalNext]_vars

----------------------------------------------------------------------------
(* Order-book feature extraction *)

\* Prices are in cents and quantities in billionths of a coin, so that the
\* epsilon of the denominator, 1e-9, is one unit.  A quotient is an exact
\* fraction; a division by zero yields, as in JavaScript, no error but NaN
\* (0/0) or an infinity (1/0, -1/0), written here with the denominator 0.
DEPTH_LEVELS == 10
EPSILON == 1

\* a decimal text as the exchange sends it: the digits before and after the point
Decimal(whole, fraction) == [whole |-> whole, fraction |-> fraction]

RECURSIVE digitsValue(_)
digitsValue(digits) ==
    IF digits = <<>> THEN 0
    ELSE 10 * digitsValue(SubSeq(digits, 1, Len(digits) - 1)) + digits[Len(digits)]

RECURSIVE Pow10(_)
Pow10(n) == IF n = 0 THEN 1 ELSE 10 * Pow10(n - 1)

\* parseFloat(text), in units of 10^-decimals (no text has more decimals)
parseFloat(text, decimals) ==
    digitsValue(text.whole) * Pow10(decimals)
    + digitsValue(text.fraction) * Pow10(decimals - Len(text.fraction))

\* a / b
divide(a, b) ==
    IF b = 0 THEN [num |-> (IF a = 0 THEN 0 ELSE IF a > 0 THEN 1 ELSE 0 - 1), den |-> 0]
    ELSE IF b < 0 THEN Frac(0 - a, 0 - b)
    ELSE Frac(a, b)

\* levels.map(([price, quantity]) => [parseFloat(price), parseFloat(quantity)])
parseLevels(levels) ==
    [i \in 1..Len(levels) |-> <<parseFloat(levels[i][1], 2), parseFloat(levels[i][2], 9)>>]

\* levels.reduce((sum, level) => sum + level[1], 0)
RECURSIVE sumQuantities(_)
sumQuantities(levels) ==
    IF levels = <<>> THEN 0
    ELSE sumQuantities(SubSeq(levels, 1, Len(levels) - 1)) + levels[Len(levels)][2]

\* the features of a parsed book with both sides present, over the denominator
\* total_vol
featuresOver(bids, asks, bid_vol, ask_vol, total_vol) ==
    LET best_bid == bids[1][1]
        best_ask == asks[1][1]
    IN  [mid_price |-> divide(best_bid + best_ask, 2),
         spread |-> best_ask - best_bid,
         bid_vol |-> bid_vol,
         ask_vol |-> ask_vol,
         imbalance |-> divide(bid_vol - ask_vol, total_vol),
         weighted_mid |-> divide((best_ask * bid_vol) + (best_bid * ask_vol), total_vol)]

\* a variant without the epsilon in the denominator
getOrderBookFeatures_withoutEpsilon(orderBook) ==
    IF IsNull(orderBook) THEN Null
    ELSE LET bids == parseLevels(orderBook[1].bids)
             asks == parseLevels(orderBook[1].asks)
             bid_vol == sumQuantities(SliceFirst(bids, DEPTH_LEVELS))
             ask_vol == sumQuantities(SliceFirst(asks, DEPTH_LEVELS))
         IN  IF Len(bids) = 0 \/ Len(asks) = 0 THEN Null
             ELSE Some(featuresOver(bids, asks, bid_vol, ask_vol, bid_vol + ask_vol))

\* getOrderBookFeatures, given what getOrderBook returned
getOrderBookFeatures(orderBook) ==
    IF IsNull(orderBook) THEN Null
    ELSE LET bids == parseLevels(orderBook[1].bids)
             asks == parseLevels(orderBook[1].asks)
             bid_vol == sumQuantities(SliceFirst(bids, DEPTH_LEVELS))
             ask_vol == sumQuantities(SliceFirst(asks, DEPTH_LEVELS))
             total_vol == bid_vol + ask_vol + EPSILON
         IN  IF Len(bids) = 0 \/ Len(asks) = 0 THEN Null
             ELSE Some(featuresOver(bids, asks, bid_vol, ask_vol, total_vol))

\* the quantities tried: "0", "0.000000001", "0.000000004", "0.00000001"
QuantityTexts == {Decimal(<<0>>, <<>>),
                  Decimal(<<0>>, <<0, 0, 0, 0, 0, 0, 0, 0, 1>>),
                  Decimal(<<0>>, <<0, 0, 0, 0, 0, 0, 0, 0, 4>>),
                  Decimal(<<0>>, <<0, 0, 0, 0, 0, 0, 0, 1>>)}

\* the quantity of the levels below the first DEPTH_LEVELS: "0.0000001"
DeepQuantity == Decimal(<<0>>, <<0, 0, 0, 0, 0, 0, 1>>)

\* the numbers of levels of a side tried
LevelCounts == {0, 1, 3, DEPTH_LEVELS + 1}

\* the price of level i: bids from "2999.98" down, asks from "3000.01" up
LevelPrice(side, i) ==
    IF side = "bids"
    THEN Decimal(<<2, 9, 9, 9>>, <<(99 - i) \div 10, (99 - i) % 10>>)
    ELSE Decimal(<<3, 0, 0, 0>>, <<i \div 10, i % 10>>)

\* the sides tried: n levels of one quantity, the deep levels of another
BookSides(side) ==
    {[i \in 1..n |-> <<LevelPrice(side, i),
                       IF i <= DEPTH_LEVELS THEN quantity ELSE DeepQuantity>>] :
        n \in LevelCounts, quantity \in QuantityTexts}

\* what getOrderBook returns: null, or the two sides
OrderBooks ==
    {Null} \cup {Some([bids |-> bids, asks |-> asks]) :
                    bids \in BookSides("bids"), asks \in BookSides("asks")}

FeaturesInit ==
    /\ Mounted
    /\ deviations = 0
    /\ tornDownAt = NoTimer
    /\ envQuietUntil = 0
    /\ horizon = 0
    /\ loopTimeout = LateJitter
    /\ market = QuietMarket
    /\ oracleFault = Null
    /\ generatorCall = Null
    /\ indicatorCall = Null
    /\ featuresCall \in {Some([orderBook |-> book, result |-> Null]) : book \in OrderBooks}

\* getOrderBookFeatures is applied to the book
ExtractFeatures ==
    /\ ~IsNull(featuresCall)
    /\ IsNull(featuresCall[1].result)
    /\ featuresCall' =
           Some([featuresCall[1] EXCEPT
                    !.result = Some(getOrderBookFeatures(featuresCall[1].orderBook))])
    /\ UNCHANGED <<now, stateVars, previousOrderBookFeaturesRef, queue, pendingEffects, timerVars,
                   marketFetches, oracleCalls, market, deviations, envQuietUntil, horizon,
                   tornDownAt, oracleFault, generatorCall, indicatorCall, serialVars>>

FeaturesNext == ExtractFeatures

FeaturesSpec == FeaturesInit /\ [][FeaturesNext]_vars

----------------------------------------------------------------------------
(* Technical indicators *)

\* A number is an exact fraction.  Math.sqrt alone is not exact: its result is
\* cut to thousandths.
RSI_PERIOD == 14
BBANDS_PERIOD == 20
STD_DEV_MULTIPLIER == 2
K_PERIOD == 14
D_PERIOD == 3
FAST_PERIOD == 12
SLOW_PERIOD == 26
SIGNAL_PERIOD == 9

Number(n) == Frac(n, 1)

\* not a number: NaN or an infinity; arithmetic on one yields one
NotFinite(a) == a.den = 0

FracPlus(a, b) ==
    IF NotFinite(a) THEN a
    ELSE IF NotFinite(b) THEN b
    ELSE LET g == GCD(a.den, b.den)
         IN  Frac(a.num * (b.den \div g) + b.num * (a.den \div g), (a.den \div g) * b.den)

FracMinus(a, b) == FracPlus(a, [num |-> 0 - b.num, den |-> b.den])

FracTimes(a, b) ==
    IF NotFinite(a) THEN a
    ELSE IF NotFinite(b) THEN b
    ELSE LET g == Max(1, GCD(Abs(a.num), b.den))
             h == Max(1, GCD(Abs(b.num), a.den))
         IN  Frac((a.num \div g) * (b.num \div h), (a.den \div h) * (b.den \div g))

\* a / b: NaN or an infinity (denominator 0) when b is 0
FracOver(a, b) ==
    IF NotFinite(a) THEN a
    ELSE IF NotFinite(b) THEN b
    ELSE IF b.num = 0 THEN divide(a.num, 0)
    ELSE IF b.num < 0 THEN FracTimes([num |-> 0 - a.num, den |-> a.den],
                                     [num |-> b.den, den |-> 0 - b.num])
    ELSE FracTimes(a, [num |-> b.den, den |-> b.num])

\* a < b
FracLess(a, b) == ~NotFinite(a) /\ ~NotFinite(b) /\ a.num * b.den < b.num * a.den

\* the largest r in lo..hi with r * r <= n
RECURSIVE rootBetween(_, _, _)
rootBetween(n, lo, hi) ==
    IF lo = hi THEN lo
    ELSE LET mid == (lo + hi + 1) \div 2
         IN  IF mid * mid <= n THEN rootBetween(n, mid, hi) ELSE rootBetween(n, lo, mid - 1)

\* Math.sqrt(x), cut to thousandths
sqrt(x) == Frac(rootBetween((x.num * 1000000) \div x.den, 0, 46340), 1000)

\* the sum of data[lo..hi]; the arithmetic is exact, so the order of the
\* additions is immaterial, and the range is halved
RECURSIVE sumBetween(_, _, _)
sumBetween(data, lo, hi) ==
    IF lo > hi THEN Number(0)
    ELSE IF lo = hi THEN data[lo]
    ELSE LET mid == (lo + hi) \div 2
         IN  FracPlus(sumBetween(data, lo, mid), sumBetween(data, mid + 1, hi))

\* data.reduce((a, b) => a + b, 0)
sumOf(data) == sumBetween(data, 1, Len(data))

\* the largest of the first n of data
RECURSIVE maxUpTo(_, _)
maxUpTo(data, n) ==
    IF n = 1 THEN data[1]
    ELSE LET rest == maxUpTo(data, n - 1)
         IN  IF FracLess(rest, data[n]) THEN data[n] ELSE rest

\* Math.max(...data)
maxOf(data) == maxUpTo(data, Len(data))

\* the smallest of the first n of data
RECURSIVE minUpTo(_, _)
minUpTo(data, n) ==
    IF n = 1 THEN data[1]
    ELSE LET rest == minUpTo(data, n - 1)
         IN  IF FracLess(data[n], rest) THEN data[n] ELSE rest

\* Math.min(...data)
minOf(data) == minUpTo(data, Len(data))

\* values.filter(v => v !== null)
validValues(series) ==
    LET valid(v) == ~IsNull(v)
        kept == SelectSeq(series, valid)
    IN  [i \in 1..Len(kept) |-> kept[i][1]]

\* the first i entries of emas in calculateEMASeries: null before the seed, the
\* average of the first period values at the seed, smoothed with
\* k = 2 / (period + 1) after it
RECURSIVE emasUpTo(_, _, _)
emasUpTo(prices, period, i) ==
    LET k == FracOver(Number(2), Number(period + 1))
    IN  IF i < period THEN [j \in 1..i |-> Null]
        ELSE IF i = period
        THEN Append([j \in 1..(period - 1) |-> Null],
                    Some(FracOver(sumOf(SubSeq(prices, 1, period)), Number(period))))
        ELSE LET emas == emasUpTo(prices, period, i - 1)
                 prevEma == emas[i - 1]
             IN  Append(emas,
                        IF IsNull(prevEma) THEN Null
                        ELSE Some(FracPlus(FracTimes(prices[i], k),
                                           FracTimes(prevEma[1], FracMinus(Number(1), k)))))

calculateEMASeries(prices, period) ==
    IF Len(prices) < period THEN Null
    ELSE Some(emasUpTo(prices, period, Len(prices)))

calculateSMA(data, period) ==
    IF Len(data) < period THEN Null
    ELSE Some(FracOver(sumOf(SliceLast(data, period)), Number(period)))

calculateStdDev(data, period) ==
    IF Len(data) < period THEN Null
    ELSE LET slice == SliceLast(data, period)
             mean == calculateSMA(slice, period)
         IN  IF IsNull(mean) THEN Null
             ELSE LET sqDiff == [i \in 1..Len(slice) |->
                                    FracTimes(FracMinus(slice[i], mean[1]),
                                              FracMinus(slice[i], mean[1]))]
                      avgSqDiff == FracOver(sumOf(sqDiff), Number(period))
                  IN  Some(sqrt(avgSqDiff))

\* a variant that asks for one sample more than the period
calculateBBands_beyondPeriod(prices, period, stdDevMultiplier) ==
    IF Len(prices) <= period THEN Null
    ELSE LET middle == calculateSMA(prices, period)
             stdDev == calculateStdDev(prices, period)
         IN  IF IsNull(middle) \/ IsNull(stdDev) THEN Null
             ELSE Some([upper |-> FracPlus(middle[1],
                                           FracTimes(stdDev[1], Number(stdDevMultiplier))),
                        middle |-> middle[1],
                        lower |-> FracMinus(middle[1],
                                            FracTimes(stdDev[1], Number(stdDevMultiplier)))])

calculateBBands(prices, period, stdDevMultiplier) ==
    IF Len(prices) < period THEN Null
    ELSE LET middle == calculateSMA(prices, period)
             stdDev == calculateStdDev(prices, period)
         IN  IF IsNull(middle) \/ IsNull(stdDev) THEN Null
             ELSE Some([upper |-> FracPlus(middle[1],
                                           FracTimes(stdDev[1], Number(stdDevMultiplier))),
                        middle |-> middle[1],
                        lower |-> FracMinus(middle[1],
                                            FracTimes(stdDev[1], Number(stdDevMultiplier)))])

\* %K of the window that ends at index i (from 1)
percentK(highs, lows, closes, kPeriod, i) ==
    LET highestHigh == maxOf(SubSeq(highs, i - kPeriod + 1, i))
        lowestLow == minOf(SubSeq(lows, i - kPeriod + 1, i))
        currentClose == closes[i]
    IN  IF highestHigh = lowestLow THEN Number(100)
        ELSE FracTimes(Number(100), FracOver(FracMinus(currentClose, lowestLow),
                                             FracMinus(highestHigh, lowestLow)))

calculateStochastic(highs, lows, closes, kPeriod, dPeriod) ==
    IF Len(closes) < kPeriod THEN Null
    ELSE LET kValues == [j \in 1..(Len(closes) - kPeriod + 1) |->
                            percentK(highs, lows, closes, kPeriod, j + kPeriod - 1)]
         IN  IF Len(kValues) < dPeriod THEN Null
             ELSE Some([k |-> kValues[Len(kValues)],
                        d |-> FracOver(sumOf(SliceLast(kValues, dPeriod)), Number(dPeriod))])

\* prices[i] - prices[i - 1], i counted from 0 as in the source
changeAt(prices, i) == FracMinus(prices[i + 1], prices[i])

gainOf(change) == IF change.num > 0 THEN change ELSE Number(0)

lossOf(change) == IF change.num < 0 THEN FracMinus(Number(0), change) ELSE Number(0)

\* avgGain and avgLoss after each change from index period to index i: the
\* averages of the first period gains and losses, then smoothed
RECURSIVE averagesUpTo(_, _, _)
averagesUpTo(prices, period, i) ==
    IF i = period
    THEN <<[avgGain |-> FracOver(sumOf([j \in 1..period |-> gainOf(changeAt(prices, j))]),
                                 Number(period)),
            avgLoss |-> FracOver(sumOf([j \in 1..period |-> lossOf(changeAt(prices, j))]),
                                 Number(period))]>>
    ELSE LET averages == averagesUpTo(prices, period, i - 1)
             last == averages[Len(averages)]
             change == changeAt(prices, i)
         IN  Append(averages,
                    [avgGain |-> FracOver(FracPlus(FracTimes(last.avgGain, Number(period - 1)),
                                                   gainOf(change)),
                                          Number(period)),
                     avgLoss |-> FracOver(FracPlus(FracTimes(last.avgLoss, Number(period - 1)),
                                                   lossOf(change)),
                                          Number(period))])

\* avgGain and avgLoss once every change has been taken in
finalAverages(prices, period) ==
    LET averages == averagesUpTo(prices, period, Len(prices) - 1)
    IN  averages[Len(averages)]

\* a variant that returns 100 / (1 + rs)
calculateRSI_complement(prices, period) ==
    IF Len(prices) <= period THEN Null
    ELSE LET avgGain == finalAverages(prices, period).avgGain
             avgLoss == finalAverages(prices, period).avgLoss
         IN  IF avgLoss.num = 0 THEN Some(Number(100))
             ELSE LET rs == FracOver(avgGain, avgLoss)
                  IN  Some(FracOver(Number(100), FracPlus(Number(1), rs)))

calculateRSI(prices, period) ==
    IF Len(prices) <= period THEN Null
    ELSE LET avgGain == finalAverages(prices, period).avgGain
             avgLoss == finalAverages(prices, period).avgLoss
         IN  IF avgLoss.num = 0 THEN Some(Number(100))
             ELSE LET rs == FracOver(avgGain, avgLoss)
                  IN  Some(FracMinus(Number(100),
                                     FracOver(Number(100), FracPlus(Number(1), rs))))

calculateMACD(prices, fastPeriod, slowPeriod, signalPeriod) ==
    IF Len(prices) < slowPeriod + signalPeriod THEN Null
    ELSE LET ema12 == calculateEMASeries(prices, fastPeriod)
             ema26 == calculateEMASeries(prices, slowPeriod)
         IN  IF IsNull(ema12) \/ IsNull(ema26) THEN Null
             ELSE LET macdLineSeries ==
                          [i \in 1..Len(prices) |->
                              IF ~IsNull(ema12[1][i]) /\ ~IsNull(ema26[1][i])
                              THEN Some(FracMinus(ema12[1][i][1], ema26[1][i][1]))
                              ELSE Null]
                      validMacdValues == validValues(macdLineSeries)
                      signalLineEMASeries == calculateEMASeries(validMacdValues, signalPeriod)
                  IN  IF Len(validMacdValues) < signalPeriod \/ IsNull(signalLineEMASeries)
                      THEN Null
                      ELSE LET validSignalValues == validValues(signalLineEMASeries[1])
                               lastMacd == validMacdValues[Len(validMacdValues)]
                               lastSignal == validSignalValues[Len(validSignalValues)]
                           IN  IF Len(validSignalValues) = 0 THEN Null
                               ELSE Some([macd |-> lastMacd,
                                          signal |-> lastSignal,
                                          histogram |-> FracMinus(lastMacd, lastSignal)])

Indicators == {"RSI", "MACD", "BBands", "Stochastic"}

\* the longest series 1, 2, ..., n tried
MaxSamples == 40

\* the series 1, 2, ..., n
Counting(n) == [i \in 1..n |-> i]

\* a series of n prices from 100 whose changes alternate between a and b
Alternating(n, a, b) ==
    [i \in 1..n |-> 100 + ((i - 1) \div 2) * (a + b) + (IF i % 2 = 0 THEN a ELSE 0)]

\* the changes of price tried
Steps == (0 - 3)..3

\* the price series tried: the counting series, and alternating series long
\* enough for RSI to smooth none, one or two changes
PriceSeries ==
    {Counting(n) : n \in 0..MaxSamples}
    \cup {Alternating(n, a, b) : n \in (RSI_PERIOD + 1)..(RSI_PERIOD + 3), a \in Steps, b \in Steps}

IndicatorInit ==
    /\ Mounted
    /\ deviations = 0
    /\ tornDownAt = NoTimer
    /\ envQuietUntil = 0
    /\ horizon = 0
    /\ loopTimeout = LateJitter
    /\ market = QuietMarket
    /\ oracleFault = Null
    /\ generatorCall = Null
    /\ featuresCall = Null
    /\ indicatorCall \in {Some([indicator |-> indicator, prices |-> prices, result |-> Null]) :
                             indicator \in Indicators, prices \in PriceSeries}

\* the indicator is applied to the prices, with its default periods; the
\* stochastic oscillator takes the prices as highs, lows and closes
Calculate ==
    /\ ~IsNull(indicatorCall)
    /\ IsNull(indicatorCall[1].result)
    /\ LET call == indicatorCall[1]
           prices == [i \in 1..Len(call.prices) |-> Number(call.prices[i])]
       IN  indicatorCall' =
               Some([call EXCEPT !.result = Some(
                   CASE call.indicator = "RSI" -> calculateRSI(prices, RSI_PERIOD)
                     [] call.indicator = "MACD" ->
                            calculateMACD(prices, FAST_PERIOD, SLOW_PERIOD, SIGNAL_PERIOD)
                     [] call.indicator = "BBands" ->
                            calculateBBands(prices, BBANDS_PERIOD, STD_DEV_MULTIPLIER)
                     [] call.indicator = "Stochastic" ->
                            calculateStochastic(prices, prices, prices, K_PERIOD, D_PERIOD))])
    /\ UNCHANGED <<now, stateVars, previousOrderBookFeaturesRef, queue, pendingEffects, timerVars,
                   marketFetches, oracleCalls, market, deviations, envQuietUntil, horizon,
                   tornDownAt, oracleFault, generatorCall, featuresCall, serialVars>>

IndicatorNext == Calculate

IndicatorSpec == IndicatorInit /\ [][IndicatorNext]_vars

----------------------------------------------------------------------------
(* Properties of outcome resolution *)

IdsOf(outcomes) == {outcomes[i].prediction.id : i \in 1..Len(outcomes)}

OutcomeOf(outcomes, id) ==
    outcomes[CHOOSE i \in 1..Len(outcomes) : outcomes[i].prediction.id = id]

\* the outcomes that leave PENDING in this step
Resolved(before, after) ==
    {id \in IdsOf(before) \cap IdsOf(after) :
        OutcomeOf(before, id).status = "PENDING" /\ OutcomeOf(after, id).status # "PENDING"}

Age(outcome) == now - outcome.prediction.timestamp

Horizon(outcome) == timeframeMap[outcome.prediction.timeframe]

StatusChangesOnce(before, after, terminal) ==
    \A id \in IdsOf(before) \cap IdsOf(after) :
        LET old == OutcomeOf(before, id).status
            new == OutcomeOf(after, id).status
        IN  new # old => old = "PENDING" /\ new \in terminal

\* C1: in every step, the status of an outcome of either tracker stays as it is
\* or goes from PENDING to a terminal status (CORRECT or INCORRECT, or NEUTRAL
\* for a heuristic outcome); a terminal status is never changed again.
C1_StatusChangesAtMostOnce ==
    [][/\ StatusChangesOnce(aiPredictionOutcomes, aiPredictionOutcomes',
                            {"CORRECT", "INCORRECT"})
       /\ StatusChangesOnce(orderBookOutcomes, orderBookOutcomes',
                            {"CORRECT", "INCORRECT", "NEUTRAL"})]_vars

\* an oracle outcome and a heuristic outcome are terminal, and resolution passes
\* have run since over a price that differs from the one that resolved them
C1_Witness ==
    /\ \E i \in 1..Len(aiPredictionOutcomes) :
          /\ aiPredictionOutcomes[i].status = "INCORRECT"
          /\ aiPredictionOutcomes[i].prediction.direction = "UP"
          /\ priceHistory[Len(priceHistory)].price
                 > aiPredictionOutcomes[i].prediction.priceAtPrediction
    /\ \E i \in 1..Len(orderBookOutcomes) :
          /\ orderBookOutcomes[i].status # "PENDING"
          /\ Age(orderBookOutcomes[i]) >= Horizon(orderBookOutcomes[i]) + 2 * MARKET_DATA_INTERVAL

\* C2: an outcome of either tracker that is not PENDING has a horizon that has
\* elapsed: now - T >= H for its prediction timestamp T and its horizon H.
C2_NoResolutionBeforeHorizon ==
    /\ \A i \in 1..Len(aiPredictionOutcomes) :
          aiPredictionOutcomes[i].status # "PENDING"
              => Age(aiPredictionOutcomes[i]) >= Horizon(aiPredictionOutcomes[i])
    /\ \A i \in 1..Len(orderBookOutcomes) :
          orderBookOutcomes[i].status # "PENDING"
              => Age(orderBookOutcomes[i]) >= Horizon(orderBookOutcomes[i])

\* a heuristic outcome resolved at the very instant its horizon elapsed, next to
\* a PENDING one of a longer horizon that is older than the shortest horizon
C2_Witness ==
    /\ \E i \in 1..Len(orderBookOutcomes) :
          /\ orderBookOutcomes[i].status # "PENDING"
          /\ Age(orderBookOutcomes[i]) = Horizon(orderBookOutcomes[i])
    /\ \E i \in 1..Len(orderBookOutcomes) :
          /\ orderBookOutcomes[i].status = "PENDING"
          /\ Age(orderBookOutcomes[i]) >= timeframeMap["15s"]
          /\ Age(orderBookOutcomes[i]) < Horizon(orderBookOutcomes[i])

\* the realized direction and the score, stated from the prices
Realized(latestPrice, baseline) == IF latestPrice > baseline THEN "UP" ELSE "DOWN"

Score(latestPrice, baseline, direction) ==
    IF Realized(latestPrice, baseline) = direction THEN "CORRECT" ELSE "INCORRECT"

\* C3: an oracle outcome that leaves PENDING in a step becomes CORRECT if the
\* realized direction (UP if the latest price of the pass is strictly greater than
\* priceAtPrediction, DOWN otherwise) equals its predicted direction, INCORRECT
\* otherwise.
C3_OracleScoring ==
    [][\A id \in Resolved(aiPredictionOutcomes, aiPredictionOutcomes') :
          LET prediction == OutcomeOf(aiPredictionOutcomes, id).prediction
          IN  OutcomeOf(aiPredictionOutcomes', id).status =
                  Score(priceHistory[Len(priceHistory)].price,
                        prediction.priceAtPrediction, prediction.direction)]_vars

\* a 15s UP oracle prediction resolved over a higher price is CORRECT, and a UP
\* oracle prediction resolved over an unchanged price is INCORRECT
C3_Witness ==
    /\ \E i \in 1..Len(aiPredictionOutcomes) :
          /\ aiPredictionOutcomes[i].prediction.timeframe = "15s"
          /\ aiPredictionOutcomes[i].prediction.direction = "UP"
          /\ aiPredictionOutcomes[i].status = "CORRECT"
          /\ priceHistory[Len(priceHistory)].price
                 > aiPredictionOutcomes[i].prediction.priceAtPrediction
    /\ \E i \in 1..Len(aiPredictionOutcomes) :
          /\ aiPredictionOutcomes[i].prediction.direction = "UP"
          /\ aiPredictionOutcomes[i].status = "INCORRECT"

\* the samples of the price history taken at or after a timestamp
SamplesFrom(timestamp) == {i \in 1..Len(priceHistory) : priceHistory[i].timestamp >= timestamp}

\* the earliest of them: the least timestamp, and of two samples with the same
\* timestamp the one appended first
Earliest(S) ==
    CHOOSE i \in S : \A j \in S :
        \/ priceHistory[i].timestamp < priceHistory[j].timestamp
        \/ priceHistory[i].timestamp = priceHistory[j].timestamp /\ i <= j

C5_NeutralOnlyForNeutral ==
    \A i \in 1..Len(orderBookOutcomes) :
        LET o == orderBookOutcomes[i]
        IN  /\ o.prediction.direction = "NEUTRAL" => o.status \in {"PENDING", "NEUTRAL"}
            /\ o.prediction.direction \in {"UP", "DOWN"}
                  => o.status \in {"PENDING", "CORRECT", "INCORRECT"}

\* a NEUTRAL prediction has resolved to NEUTRAL and a directional one has been scored
C5_Witness ==
    /\ \E i \in 1..Len(orderBookOutcomes) :
          /\ orderBookOutcomes[i].prediction.direction = "NEUTRAL"
          /\ orderBookOutcomes[i].status = "NEUTRAL"
    /\ \E i \in 1..Len(orderBookOutcomes) :
          /\ orderBookOutcomes[i].prediction.direction \in {"UP", "DOWN"}
          /\ orderBookOutcomes[i].status \in {"CORRECT", "INCORRECT"}

----------------------------------------------------------------------------
(* Properties of the bounded histories *)

\* the setState calls to a hook that wait for the next render
Queued(hook) == {i \in 1..Len(queue) : queue[i].hook = hook}

\* the number of ticks appended to the price history so far
TicksAppended == nextTick - 1 - Cardinality(Queued("priceHistory"))

\* C6: the price history holds at most MAX_HISTORY_LENGTH ticks, and they are
\* the most recently appended ones in the order of their appending, oldest first:
\* after n appends it holds ticks n - min(n, 120) + 1 .. n.
C6_PriceHistoryWindow ==
    /\ Len(priceHistory) = Min(TicksAppended, MAX_HISTORY_LENGTH)
    /\ \A i \in 1..Len(priceHistory) :
          priceHistory[i].seq = TicksAppended - Len(priceHistory) + i

\* 200 ticks have been appended and the history holds the last 120 of them
C6_Witness ==
    /\ TicksAppended = 200
    /\ Len(priceHistory) = 120
    /\ priceHistory[1].seq = 81
    /\ priceHistory[120].seq = 200

\* the number of entries inserted into a history so far: those handed out, less
\* those whose insertion waits for the next render (batch entries per call)
Inserted(next, hook, op, batch) ==
    next - 1 - batch * Cardinality({i \in Queued(hook) : queue[i].op = op})

\* a history is the window of the cap most recently inserted entries, newest first
IsWindow(ids, inserted, cap) ==
    /\ Len(ids) = Min(inserted, cap)
    /\ \A i \in 1..Len(ids) : ids[i] = inserted - i + 1

OutcomeIds(outcomes) == [i \in 1..Len(outcomes) |-> outcomes[i].prediction.id]

\* C7: each outcome history holds at most MAX_OUTCOME_HISTORY entries and the
\* oracle prediction display history at most MAX_PREDICTION_HISTORY_ITEMS, and
\* each holds exactly the most recently inserted entries, newest first (so that
\* only the oldest entries leave, and only on overflow).
C7_SlidingWindows ==
    /\ IsWindow(OutcomeIds(orderBookOutcomes),
                Inserted(nextObId, "orderBookOutcomes", "prependOutcomes", 1),
                MAX_OUTCOME_HISTORY)
    /\ IsWindow(OutcomeIds(aiPredictionOutcomes),
                Inserted(nextAiId, "aiPredictionOutcomes", "prependOutcomes",
                         Len(TimeframeOrder)),
                MAX_OUTCOME_HISTORY)
    /\ IsWindow([i \in 1..Len(predictionHistory) |-> predictionHistory[i].id],
                Inserted(nextAiId, "predictionHistory", "prependPredictions",
                         Len(TimeframeOrder)),
                MAX_PREDICTION_HISTORY_ITEMS)

----------------------------------------------------------------------------
(* Properties of the accuracy statistics *)

\* the heuristic outcomes of a horizon that are completed and directional
Qualifying(tf) ==
    {i \in 1..Len(orderBookOutcomes) :
        /\ orderBookOutcomes[i].prediction.timeframe = tf
        /\ orderBookOutcomes[i].status # "PENDING"
        /\ orderBookOutcomes[i].prediction.direction # "NEUTRAL"}

----------------------------------------------------------------------------
(* Properties of the oracle loop *)

\* C9: at most one oracle request is in flight, and a call is issued only when
\* none is outstanding.
C9_SingleFlight ==
    Len(oracleCalls) <= 1

RateLimitMessage == "rate_limit"

----------------------------------------------------------------------------
(* Properties of the teardown *)

\* C11: once the session is torn down no periodic task runs any more: no timer
\* of the market data refresh, of a heuristic loop, of the oracle loop or of the
\* rate-limit cooldown fires or is armed afterwards.
C11_TeardownCancelsTimers ==
    [][tornDown => UNCHANGED timerVars]_vars

----------------------------------------------------------------------------
(* Properties of the oracle's inputs *)

\* a tick of the oracle loop: the warm-up timeout or the interval fires
OracleTick ==
    \/ initialTimeout = now /\ initialTimeout' = NoTimer /\ intervalId' = now + PREDICTION_INTERVAL
    \/ intervalId = now /\ intervalId' = now + PREDICTION_INTERVAL

\* C13: the oracle is called only with MIN_ORACLE_SAMPLES price samples or more;
\* a tick of the oracle loop that finds fewer does nothing: it sends no request,
\* raises no in-flight flag and sets no error.
C13_OracleNeedsSamples ==
    [][/\ Len(oracleCalls') > Len(oracleCalls) => Len(priceHistory) >= MIN_ORACLE_SAMPLES
       /\ OracleTick /\ Len(priceHistory) < MIN_ORACLE_SAMPLES
             => UNCHANGED <<queue, oracleCalls, stateVars>>]_vars

\* the oracle loop has just ticked in a mounted session that was not rate-limited and
\* had samples, but fewer than the minimum: nothing is in flight, no flag and no
\* error is set or about to be set
C13_Witness ==
    /\ ~tornDown
    /\ intervalId = now + PREDICTION_INTERVAL
    /\ Len(priceHistory) > 0
    /\ Len(priceHistory) < MIN_ORACLE_SAMPLES
    /\ ~isRateLimited
    /\ oracleCalls = <<>>
    /\ ~isPredicting
    /\ error = "null"
    /\ Queued("isPredicting") = {}
    /\ Queued("error") = {}

----------------------------------------------------------------------------
(* Properties of the signal generator *)

\* the generator has been applied; its arguments and its result
Called == ~IsNull(generatorCall) /\ ~IsNull(generatorCall[1].result)
Signal == generatorCall[1].result[1]
ArgTimeframe == generatorCall[1].timeframe
ArgImbalance == generatorCall[1].features.imbalance
ArgHasPrevious == ~IsNull(generatorCall[1].prevFeatures)
ArgImbalanceDelta == ArgImbalance - generatorCall[1].prevFeatures[1].imbalance
ArgPriceChange == generatorCall[1].history[2].price - generatorCall[1].history[1].price
ArgAccuracy == generatorCall[1].currentAccuracyStats[ArgTimeframe]

\* 1 for buy pressure beyond 0.05, -1 for sell pressure beyond it, else 0
Pressure == IF ArgImbalance > 50 THEN 1 ELSE IF ArgImbalance < 0 - 50 THEN 0 - 1 ELSE 0

\* +0.15 for a change of imbalance of more than 0.01 in the direction of the
\* pressure, -0.15 for one against it; nothing without a previous snapshot
ExpectedImbalanceMomentum ==
    IF ~ArgHasPrevious THEN 0
    ELSE IF ArgImbalanceDelta * Pressure > 10 THEN 150
    ELSE IF ArgImbalanceDelta * Pressure < 0 - 10 THEN 0 - 150
    ELSE 0

\* +0.1 for a price change of more than 0.1 in the direction of the pressure,
\* -0.2 for one against it
ExpectedPriceMomentum ==
    IF ArgPriceChange * Pressure > 10 THEN 100
    ELSE IF ArgPriceChange * Pressure < 0 - 10 THEN 0 - 200
    ELSE 0

\* the confidence after both momentum adjustments, in thousandths
Adjusted == (Abs(ArgImbalance) * 3) \div 2 + ExpectedImbalanceMomentum + ExpectedPriceMomentum

\* the decay of the horizon, in thousandths
Decay == CASE ArgTimeframe = "15s" -> 0 [] ArgTimeframe = "30s" -> 50 [] ArgTimeframe = "60s" -> 100

\* the horizon's statistics exist and count more than 5 resolved signals
Adjusting == ~IsNull(ArgAccuracy) /\ ArgAccuracy[1].total > 5

\* C14: the signal is UP only for an imbalance above 0.05 and DOWN only for one
\* below -0.05; a confidence below 0.3 after the two momentum adjustments makes
\* it NEUTRAL; it is directional exactly when |imbalance| > 0.05 and that
\* confidence is 0.3 or more.
C14_DirectionAndFloor ==
    Called =>
        /\ Signal.direction = "UP" => ArgImbalance > 50
        /\ Signal.direction = "DOWN" => ArgImbalance < 0 - 50
        /\ Adjusted < 300 => Signal.direction = "NEUTRAL"
        /\ Signal.direction # "NEUTRAL" <=> (Abs(ArgImbalance) > 50 /\ Adjusted >= 300)

\* a signal whose base confidence clears the floor is suppressed because the
\* momentum adjustments take the confidence below it
C14_Witness ==
    /\ Called
    /\ ArgImbalance > 50
    /\ (ArgImbalance * 3) \div 2 >= 300
    /\ Adjusted < 300
    /\ Signal.direction = "NEUTRAL"

\* C15: whatever the horizon, the imbalance, the previous snapshot, the price
\* change and the statistics, the reported confidence lies in [0, 0.95].
C15_ConfidenceRange ==
    Called =>
        /\ Signal.confidence.den > 0
        /\ Signal.confidence.num >= 0
        /\ Signal.confidence.num <= 950 * Signal.confidence.den

\* the confidence before the accuracy adjustment is at the cap and the
\* adjustment is positive: the reported confidence is the cap
C15_Witness ==
    /\ Called
    /\ Adjusted >= 950
    /\ ArgTimeframe = "15s"
    /\ Adjusting
    /\ 2 * ArgAccuracy[1].correct > ArgAccuracy[1].total
    /\ Signal.confidence = Frac(950, 1)

\* C16: with an imbalance of 0.10, no previous snapshot, no price change and no
\* statistics the base confidence is 0.15, below 0.3: the signal is NEUTRAL for
\* each of the three horizons, its confidence 0.15 less the horizon's decay.
C16_WeakImbalanceIsNeutral ==
    (Called /\ ArgImbalance = 100 /\ ~ArgHasPrevious /\ ArgPriceChange = 0 /\ IsNull(ArgAccuracy))
        => /\ Signal.direction = "NEUTRAL"
           /\ Signal.confidence = Frac(150 - Decay, 1)

C16_Witness ==
    /\ Called
    /\ ArgImbalance = 100
    /\ ~ArgHasPrevious
    /\ ArgPriceChange = 0
    /\ IsNull(ArgAccuracy)
    /\ ArgTimeframe = "60s"
    /\ Signal.direction = "NEUTRAL"
    /\ Signal.confidence = Frac(50, 1)

\* C17: with an imbalance of 0.30, a rise of the imbalance of more than 0.01, a
\* rise of the price of more than 0.1 and no accuracy adjustment the signal is UP
\* with confidence 0.70 for 15s, 0.65 for 30s and 0.60 for 60s.
C17_AgreeingMomentum ==
    (Called /\ ArgImbalance = 300 /\ ArgHasPrevious /\ ArgImbalanceDelta > 10
            /\ ArgPriceChange > 10 /\ ~Adjusting)
        => /\ Signal.direction = "UP"
           /\ Signal.confidence =
                  Frac(CASE ArgTimeframe = "15s" -> 700
                         [] ArgTimeframe = "30s" -> 650
                         [] ArgTimeframe = "60s" -> 600, 1)

\* the 30s signal of such a call whose horizon has statistics, of 5 resolved
\* signals only
C17_Witness ==
    /\ Called
    /\ ArgImbalance = 300
    /\ ArgHasPrevious
    /\ ArgImbalanceDelta > 10
    /\ ArgPriceChange > 10
    /\ ~IsNull(ArgAccuracy)
    /\ ArgAccuracy[1].total = 5
    /\ ArgTimeframe = "30s"
    /\ Signal.direction = "UP"
    /\ Signal.confidence = Frac(650, 1)

\* C18: the accuracy adjustment is (accuracy - 0.5) * 0.1 when the statistics of
\* the signal's own horizon exist and count more than 5, and 0 otherwise: the
\* reported confidence is the clamped confidence less the decay plus that
\* adjustment, clamped to [0, 0.95].
C18_AccuracyAdjustment ==
    Called =>
        LET total == IF Adjusting THEN ArgAccuracy[1].total ELSE 1
            adjustment == IF Adjusting
                          THEN 100 * ArgAccuracy[1].correct - 50 * ArgAccuracy[1].total
                          ELSE 0
            expected == (Max(0, Min(950, Adjusted)) - Decay) * total + adjustment
        IN  Signal.confidence.num * total
                = Signal.confidence.den * Max(0, Min(950 * total, expected))

\* a signal of a longer horizon adjusted downwards by its own statistics, 1 of 6,
\* while the shortest horizon has other statistics
C18_Witness ==
    /\ Called
    /\ ArgTimeframe # "15s"
    /\ Adjusting
    /\ ArgAccuracy[1].correct = 1
    /\ ArgAccuracy[1].total = 6
    /\ generatorCall[1].currentAccuracyStats["15s"] # ArgAccuracy
    /\ Adjusted = 600
    /\ 3 * Signal.confidence.num = (3 * (600 - Decay) - 100) * Signal.confidence.den

\* C19: a price change beyond 0.1 adds 0.1 to the confidence when it agrees with
\* the base direction and takes 0.2 off when it disagrees; within the threshold,
\* or with a NEUTRAL base direction, it changes nothing.  A change of imbalance
\* beyond 0.01 adds or takes off 0.15, and only when a previous snapshot exists.
C19_MomentumAdjustments ==
    Called =>
        Signal.confidence =
            reportedConfidence(Max(0, Min(950, Adjusted)), confidenceDecay(ArgTimeframe),
                               accuracyAdjustment(ArgAccuracy))

\* a fall of the price against buy pressure, with no previous snapshot and no
\* statistics: the signal is still UP and its confidence is 0.2 below the base
C19_Witness ==
    /\ Called
    /\ ArgImbalance = 400
    /\ ~ArgHasPrevious
    /\ ArgPriceChange < 0 - 10
    /\ IsNull(ArgAccuracy)
    /\ ArgTimeframe = "15s"
    /\ Signal.direction = "UP"
    /\ Signal.confidence = Frac(400, 1)

----------------------------------------------------------------------------
(* Properties of the heuristic loops *)

\* a tick of the loop of a horizon: its timeout fires and is set again
LoopTick(tf) == loopTimeout[tf] = now /\ loopTimeout'[tf] = now + loopInterval[tf]

\* what update() asks for: features, and two price samples
SufficientInputs == ~IsNull(orderBookFeatures) /\ Len(priceHistory) > 1

\* the signal the session holds for a horizon
SignalFor(tf) ==
    orderBookPredictions[CHOOSE i \in 1..Len(orderBookPredictions) :
                            orderBookPredictions[i].timeframe = tf]

----------------------------------------------------------------------------
(* Properties of the market data refresh *)

\* a refresh completes: its four requests have settled and the rest of
\* fetchMarketData runs
RefreshCompletes == Len(marketFetches') < Len(marketFetches)

\* the setter calls made in the step
NewCalls == SubSeq(queue', Len(queue) + 1, Len(queue'))

\* the price ticks handed to the price history in the step
NewTicks == {i \in 1..Len(NewCalls) : NewCalls[i].hook = "priceHistory"}

\* the sum of the prices of the sources that answer
QuoteSum(answered) ==
    Sum3(IF "binance" \in answered THEN Quote("binance", market.price) ELSE 0,
         IF "bybit" \in answered THEN Quote("bybit", market.price) ELSE 0,
         IF "kucoin" \in answered THEN Quote("kucoin", market.price) ELSE 0)

\* C21: a market data refresh appends at most one price tick; the tick's price is
\* the arithmetic mean of the prices of exactly the sources that returned one;
\* when all three sources fail the refresh appends no tick and sets no error.
C21_OneTickPerRefresh ==
    [][RefreshCompletes =>
          LET answered == answering(market, now)
          IN  /\ Cardinality(NewTicks) <= 1
              /\ ~tornDown => Cardinality(NewTicks) = (IF answered = {} THEN 0 ELSE 1)
              /\ \A i \in NewTicks :
                    /\ NewCalls[i].op = "appendPrice"
                    /\ NewCalls[i].arg.price * Cardinality(answered) = QuoteSum(answered)
              /\ \A i \in 1..Len(NewCalls) : NewCalls[i].hook # "error"
              /\ error' = error]_vars

\* two sources have failed: the last tick of the history has the price of the
\* one source that answered, and no error is shown
C21_Witness ==
    /\ Len(priceHistory) > 1
    /\ market.up = {"bybit"}
    /\ priceHistory[Len(priceHistory)].price = Quote("bybit", market.price)
    /\ priceHistory[Len(priceHistory) - 1].price = market.price
    /\ error = "null"

\* all three sources have failed for a while: the history has a gap of the
\* length of the outage, and no error is shown
C21_OutageLeavesGap ==
    /\ Len(priceHistory) > 1
    /\ priceHistory[Len(priceHistory)].timestamp
          >= priceHistory[Len(priceHistory) - 1].timestamp + OutageLength
    /\ error = "null"

\* a refresh starts: its four requests are sent
RefreshStarts == Len(marketFetches') > Len(marketFetches)

\* C22: market data refreshes start at a fixed period of MARKET_DATA_INTERVAL:
\* the first one at the mount, every later one a whole number of periods after
\* it, also when the Binance source fails and the endpoint index rotates.
C22_FixedRefreshPeriod ==
    [][RefreshStarts => now % MARKET_DATA_INTERVAL = 0]_vars

----------------------------------------------------------------------------
(* Properties of the oracle's failures *)

\* an oracle call completes
CallCompletes == Len(oracleCalls') < Len(oracleCalls)

FailureMessage == "failed"

\* C23: an oracle failure that is not a rate limit sets the error message and
\* clears the current predictions, and nothing else but the in-flight flag: it
\* does not enter the rate-limited state, starts no cooldown and leaves the
\* prediction history and the outcome history alone; the next tick of the
\* oracle loop issues a call as if nothing had happened.
C23_GenericFailure ==
    [][/\ (CallCompletes /\ \E i \in 1..Len(NewCalls) :
                                  NewCalls[i].hook = "error" /\ NewCalls[i].arg = FailureMessage)
             => /\ NewCalls = <<Update("error", "set", FailureMessage),
                                Update("currentPredictions", "set", Null),
                                Update("isPredicting", "set", FALSE)>>
                /\ rateLimitTimeoutRef' = rateLimitTimeoutRef
       /\ (OracleTick /\ error = FailureMessage /\ ~isRateLimited
                      /\ Len(priceHistory) >= MIN_ORACLE_SAMPLES)
             => Len(oracleCalls') = Len(oracleCalls) + 1]_vars

\* the first call has failed and the failure is on display: no predictions, no
\* history, no outcomes, no cooldown; the next tick has just issued a call
C23_Witness ==
    /\ ~tornDown
    /\ error = FailureMessage
    /\ IsNull(currentPredictions)
    /\ predictionHistory = <<>>
    /\ aiPredictionOutcomes = <<>>
    /\ ~isRateLimited
    /\ rateLimitTimeoutRef = NoTimer
    /\ intervalId = now + PREDICTION_INTERVAL
    /\ Len(oracleCalls) = 1
    /\ Queued("isPredicting") # {}

\* the backend reported a rate limit: it answered with HTTP status 429
ReportedRateLimit(fault) == ~IsNull(fault.response) /\ fault.response[1].status = 429

\* C24: the cooldown is applied if and only if the backend reported a rate limit;
\* a failure the backend reports as generic (status 500, whatever the error text)
\* starts no cooldown.
C24_RateLimitDistinguished ==
    [][(CallCompletes /\ ~IsNull(oracleFault'))
          => (rateLimitTimeoutRef' = now + RATE_LIMIT_COOLDOWN <=> ReportedRateLimit(oracleFault'[1]))]_vars

----------------------------------------------------------------------------
(* The oracle does not hold up the other loops *)

\* a call to the oracle is in flight, or a cooldown is running
OracleBusy == oracleCalls # <<>> \/ rateLimitTimeoutRef # NoTimer

\* C25: while a call to the oracle is in flight or a cooldown is running, time
\* does not pass a due loop tick or a due refresh, a loop timeout changes only by
\* a tick at its own period, every tick that finds features and two samples
\* appends a pending outcome of its horizon dated now, and every refresh that
\* got an answer appends one price tick.
C25_OracleBlocksNothing ==
    [][(OracleBusy /\ ~tornDown') =>
          /\ now' > now => /\ \A tf \in Timeframes : loopTimeout[tf] > now
                           /\ marketInterval > now
          /\ \A tf \in Timeframes :
                /\ loopTimeout'[tf] # loopTimeout[tf] => LoopTick(tf)
                /\ (LoopTick(tf) /\ SufficientInputs) =>
                      /\ Len(NewCalls) = 2
                      /\ NewCalls[2].hook = "orderBookOutcomes"
                      /\ NewCalls[2].op = "prependOutcomes"
                      /\ NewCalls[2].arg[1].status = "PENDING"
                      /\ NewCalls[2].arg[1].prediction.timeframe = tf
                      /\ NewCalls[2].arg[1].prediction.timestamp = now
          /\ (RefreshCompletes /\ answering(market, now) # {}) =>
                Cardinality(NewTicks) = 1]_vars

\* a slow call to the oracle is still in flight; since it was issued both the
\* 15s and the 30s loop have ticked and appended an outcome, and price ticks
\* have been appended
C25_Witness ==
    /\ ~tornDown
    /\ Len(oracleCalls) = 1
    /\ LET issued == oracleCalls[1].due - OracleSlow
       IN  /\ \E i \in 1..Len(orderBookOutcomes) :
                 /\ orderBookOutcomes[i].prediction.timeframe = "15s"
                 /\ orderBookOutcomes[i].prediction.timestamp > issued
           /\ \E i \in 1..Len(orderBookOutcomes) :
                 /\ orderBookOutcomes[i].prediction.timeframe = "30s"
                 /\ orderBookOutcomes[i].prediction.timestamp > issued
           /\ priceHistory # <<>>
           /\ priceHistory[Len(priceHistory)].timestamp > issued + MARKET_DATA_INTERVAL

\* a cooldown is running; since it began a loop has appended an outcome and a
\* price tick has been appended
C25_DuringCooldown ==
    /\ ~tornDown
    /\ isRateLimited
    /\ rateLimitTimeoutRef # NoTimer
    /\ LET began == rateLimitTimeoutRef - RATE_LIMIT_COOLDOWN
       IN  /\ \E i \in 1..Len(orderBookOutcomes) :
                 orderBookOutcomes[i].prediction.timestamp > began
           /\ priceHistory # <<>>
           /\ priceHistory[Len(priceHistory)].timestamp > began

----------------------------------------------------------------------------
(* Properties of the order-book features *)

\* getOrderBookFeatures has been applied
Extracted == ~IsNull(featuresCall) /\ ~IsNull(featuresCall[1].result)
Features == featuresCall[1].result[1]
ArgBook == featuresCall[1].orderBook

\* the book was fetched and both of its sides have a level
BothSides == ~IsNull(ArgBook) /\ ArgBook[1].bids # <<>> /\ ArgBook[1].asks # <<>>

\* C26: a book with both sides present always yields features whose imbalance
\* and weighted mid are numbers (no NaN, no infinity), the imbalance within
\* [-1, 1]; when the volumes of both sides are 0, the imbalance is 0 and so is the
\* weighted mid, whose denominator is the same guarded total.
C26_ZeroVolumeGuard ==
    (Extracted /\ BothSides) =>
        /\ ~IsNull(Features)
        /\ LET f == Features[1]
           IN  /\ f.bid_vol >= 0 /\ f.ask_vol >= 0
               /\ f.imbalance.den > 0
               /\ 0 - f.imbalance.den <= f.imbalance.num
               /\ f.imbalance.num <= f.imbalance.den
               /\ f.weighted_mid.den > 0
               /\ f.imbalance = Frac(f.bid_vol - f.ask_vol, f.bid_vol + f.ask_vol + EPSILON)
               /\ f.weighted_mid =
                     Frac(parseFloat(ArgBook[1].asks[1][1], 2) * f.bid_vol
                          + parseFloat(ArgBook[1].bids[1][1], 2) * f.ask_vol,
                          f.bid_vol + f.ask_vol + EPSILON)
               /\ (f.bid_vol = 0 /\ f.ask_vol = 0) =>
                     /\ f.imbalance = Frac(0, 1)
                     /\ f.weighted_mid = Frac(0, 1)

\* the features of a book of three levels a side, every quantity "0"
C26_Witness ==
    /\ Extracted
    /\ BothSides
    /\ Len(ArgBook[1].bids) = 3
    /\ Len(ArgBook[1].asks) = 3
    /\ ~IsNull(Features)
    /\ Features[1].bid_vol = 0
    /\ Features[1].ask_vol = 0
    /\ Features[1].imbalance = Frac(0, 1)
    /\ Features[1].spread = 3

\* a book whose bids alone have volume, four billionths on one level: the
\* imbalance is 4/5, below 1 for the epsilon
C26_OneSided ==
    /\ Extracted
    /\ BothSides
    /\ Features[1].bid_vol = 4
    /\ Features[1].ask_vol = 0
    /\ Features[1].imbalance = Frac(4, 5)

\* a book of eleven levels a side: the volumes are those of the first ten
C26_DeepBook ==
    /\ Extracted
    /\ BothSides
    /\ Len(ArgBook[1].bids) = DEPTH_LEVELS + 1
    /\ Features[1].bid_vol = 10
    /\ Features[1].ask_vol = 40

----------------------------------------------------------------------------
(* Properties of the technical indicators *)

\* an indicator has been applied
Calculated == ~IsNull(indicatorCall) /\ ~IsNull(indicatorCall[1].result)
Returned == indicatorCall[1].result[1]
ArgIndicator == indicatorCall[1].indicator
ArgPrices == indicatorCall[1].prices

\* the prices are 1, 2, ..., n
IsCounting == ArgPrices = Counting(Len(ArgPrices))

\* the period the claim names for each indicator
DefaultPeriod(indicator) ==
    CASE indicator = "RSI" -> RSI_PERIOD
      [] indicator = "BBands" -> BBANDS_PERIOD
      [] indicator = "Stochastic" -> K_PERIOD
      [] indicator = "MACD" -> SLOW_PERIOD

\* the number of samples from which an indicator returns a value
MinimumSamples(indicator) ==
    CASE indicator = "RSI" -> RSI_PERIOD + 1
      [] indicator = "BBands" -> BBANDS_PERIOD
      [] indicator = "Stochastic" -> K_PERIOD + D_PERIOD - 1
      [] indicator = "MACD" -> SLOW_PERIOD + SIGNAL_PERIOD

\* C27, as stated: for the prices 1, 2, ..., n with n < period + 1, the period
\* being the indicator's own default, every indicator returns null.
C27_NullBelowPeriodPlusOne ==
    (Calculated /\ IsCounting /\ Len(ArgPrices) < DefaultPeriod(ArgIndicator) + 1)
        => IsNull(Returned)

\* C27, amended: for the prices 1, 2, ..., n an indicator returns null exactly
\* when n is below its minimum: 15 for RSI (period + 1), 20 for the Bollinger
\* bands (the period itself), 16 for the stochastic oscillator (kPeriod +
\* dPeriod - 1), 35 for MACD (slow + signal).
C27_NullBelowMinimum ==
    (Calculated /\ IsCounting)
        => (IsNull(Returned) <=> Len(ArgPrices) < MinimumSamples(ArgIndicator))

\* the Bollinger bands of 1, 2, ..., 20: the middle is 10.5, the deviation 5.766
C27_Witness ==
    /\ Calculated
    /\ ArgIndicator = "BBands"
    /\ ArgPrices = Counting(BBANDS_PERIOD)
    /\ ~IsNull(Returned)
    /\ Returned[1].middle = Frac(21, 2)
    /\ Returned[1].upper = Frac(22032, 1000)
    /\ Returned[1].lower = Frac(0 - 1032, 1000)

\* MACD of 1, 2, ..., 35: both averages lag the price by a constant, the line
\* is 7 and so is its signal
C27_FirstMACD ==
    /\ Calculated
    /\ ArgIndicator = "MACD"
    /\ ArgPrices = Counting(SLOW_PERIOD + SIGNAL_PERIOD)
    /\ ~IsNull(Returned)
    /\ Returned[1].macd = Number(7)
    /\ Returned[1].histogram = Number(0)

StrictlyIncreasing(prices) == \A i \in 1..(Len(prices) - 1) : prices[i] < prices[i + 1]

StrictlyDecreasing(prices) == \A i \in 1..(Len(prices) - 1) : prices[i] > prices[i + 1]

\* C28: calculateRSI with period 14 on more than 14 samples returns a number
\* from 0 to 100: 100 when the prices strictly increase, 0 when they strictly
\* decrease.
C28_RSIRange ==
    (Calculated /\ ArgIndicator = "RSI" /\ Len(ArgPrices) > RSI_PERIOD) =>
        /\ ~IsNull(Returned)
        /\ Returned[1].den > 0
        /\ 0 <= Returned[1].num
        /\ Returned[1].num <= 100 * Returned[1].den
        /\ StrictlyIncreasing(ArgPrices) => Returned[1] = Number(100)
        /\ StrictlyDecreasing(ArgPrices) => Returned[1] = Number(0)

\* RSI of sixteen prices that fall by 1 and by 3 in turn is 0
C28_Witness ==
    /\ Calculated
    /\ ArgIndicator = "RSI"
    /\ ArgPrices = Alternating(RSI_PERIOD + 2, 0 - 1, 0 - 3)
    /\ StrictlyDecreasing(ArgPrices)
    /\ Returned = Some(Number(0))

\* RSI of seventeen prices that rise by 2 and by 1 in turn is 100
C28_Rising ==
    /\ Calculated
    /\ ArgIndicator = "RSI"
    /\ ArgPrices = Alternating(RSI_PERIOD + 3, 2, 1)
    /\ Returned = Some(Number(100))

\* RSI of fifteen prices that rise by 3 and fall by 1 in turn is 75
C28_Mixed ==
    /\ Calculated
    /\ ArgIndicator = "RSI"
    /\ ArgPrices = Alternating(RSI_PERIOD + 1, 3, 0 - 1)
    /\ Returned = Some(Number(75))

----------------------------------------------------------------------------
(* The in-flight indicator *)

\* C29: once the session has rendered what was set, isPredicting is true
\* exactly when a call to the oracle is outstanding.
C29_InFlightIndicator ==
    (~tornDown /\ queue = <<>>) => (isPredicting <=> oracleCalls # <<>>)

----------------------------------------------------------------------------
(* Resolution passes that resolve nothing *)

\* a pass of the outcome resolution effect, in a session that stays mounted
ResolutionPass == "resolve" \in pendingEffects /\ pendingEffects' = {} /\ ~tornDown'

\* the oracle outcomes a pass at this instant takes out of PENDING
DueAi ==
    {i \in 1..Len(aiPredictionOutcomes) :
        /\ priceHistory # <<>>
        /\ aiPredictionOutcomes[i].status = "PENDING"
        /\ Age(aiPredictionOutcomes[i]) >= Horizon(aiPredictionOutcomes[i])}

\* the heuristic outcomes a pass at this instant takes out of PENDING
DueOb ==
    {i \in 1..Len(orderBookOutcomes) :
        /\ priceHistory # <<>>
        /\ orderBookOutcomes[i].status = "PENDING"
        /\ Age(orderBookOutcomes[i]) >= Horizon(orderBookOutcomes[i])
        /\ SamplesFrom(orderBookOutcomes[i].prediction.timestamp) # {}}

\* C30: a resolution pass writes an outcome history exactly when the status of
\* one of its outcomes changes; a pass that changes no status calls no setter,
\* leaves both histories and the statistics derived from them as they are, and
\* schedules no further pass.
C30_IdlePassCommitsNothing ==
    [][ResolutionPass =>
          /\ (DueAi = {}) <=> (\A i \in 1..Len(NewCalls) :
                                  NewCalls[i].hook # "aiPredictionOutcomes")
          /\ (DueOb = {}) <=> (\A i \in 1..Len(NewCalls) :
                                  NewCalls[i].hook # "orderBookOutcomes")
          /\ (DueAi = {} /\ DueOb = {}) =>
                /\ queue' = queue
                /\ pendingEffects' = {}
                /\ aiPredictionOutcomes' = aiPredictionOutcomes
                /\ orderBookOutcomes' = orderBookOutcomes
                /\ aiAccuracyStats(aiPredictionOutcomes') = aiAccuracyStats(aiPredictionOutcomes)
                /\ orderBookAccuracyStats(orderBookOutcomes')
                      = orderBookAccuracyStats(orderBookOutcomes)]_vars

\* a price tick dated now has been rendered and the pass it caused has run: the
\* heuristic outcomes, none of them due, are all still PENDING and nothing is
\* waiting to be rendered
C30_Witness ==
    /\ ~tornDown
    /\ queue = <<>>
    /\ pendingEffects = {}
    /\ priceHistory # <<>>
    /\ priceHistory[Len(priceHistory)].timestamp = now
    /\ Len(orderBookOutcomes) >= 2
    /\ \A i \in 1..Len(orderBookOutcomes) : orderBookOutcomes[i].status = "PENDING"
    /\ DueOb = {}
    /\ DueAi = {}

----------------------------------------------------------------------------
(* When the resolution effect runs *)

\* a commit changes one of the three histories the resolution effect depends on
HistoryChanges ==
    \/ priceHistory' # priceHistory
    \/ aiPredictionOutcomes' # aiPredictionOutcomes
    \/ orderBookOutcomes' # orderBookOutcomes

\* C31: in a mounted session every commit that changes the price history or one
\* of the two outcome histories (a new outcome inserted included) is followed by
\* a resolution pass: the pass is scheduled by that commit and runs at the same
\* instant, before the histories change again; a pass run on a price history
\* with a latest price calls exactly the setters the comparison asks for; with an
\* empty price history a pass calls no setter.
C31_PassAfterEveryChange ==
    [][/\ (HistoryChanges /\ ~tornDown') => "resolve" \in pendingEffects'
       /\ ("resolve" \in pendingEffects /\ ~ResolutionPass /\ ~tornDown') =>
             /\ now' = now
             /\ "resolve" \in pendingEffects'
             /\ ~HistoryChanges
       /\ ResolutionPass =>
             /\ queue' = queue \o resolutionUpdates(now)
             /\ priceHistory = <<>> => queue' = queue
       /\ priceHistory = <<>> => resolutionUpdates(now) = <<>>]_vars

\* a commit has inserted a heuristic outcome made at this instant, no price tick
\* came with it, and the pass that commit scheduled has not run yet
C31_Witness ==
    /\ ~tornDown
    /\ pendingEffects = {"resolve"}
    /\ orderBookOutcomes # <<>>
    /\ orderBookOutcomes[1].prediction.timestamp = now
    /\ orderBookOutcomes[1].status = "PENDING"
    /\ priceHistory[Len(priceHistory)].timestamp < now - KLINE_INTERVAL

----------------------------------------------------------------------------
(* The previous order-book snapshot *)

\* the setter calls a step adds for the order-book features
NewFeatureCalls == {i \in 1..Len(NewCalls) : NewCalls[i].hook = "orderBookFeatures"}

\* the order-book source has failed on the last refresh that completed: it is
\* down and no refresh is about to complete
BookFailedLast ==
    /\ IsNull(market.book)
    /\ \A i \in 1..Len(marketFetches) : marketFetches[i].due # now

\* the heuristic outcomes a step's new setter calls insert
NewSignals ==
    {NewCalls[i].arg[1].prediction : i \in {j \in 1..Len(NewCalls) :
                                              NewCalls[j].hook = "orderBookOutcomes"
                                              /\ NewCalls[j].op = "prependOutcomes"}}

\* C32: the previous snapshot is written by a refresh only, and a refresh sets it
\* to the snapshot that was current when the refresh completed (nothing older is
\* kept, no newer snapshot was waiting); a refresh on which the order-book source
\* fails writes no current snapshot, a refresh on which it answers writes the
\* answer; after a refresh on which the source failed previous and current are
\* the same snapshot, and a loop tick then makes its signal with no imbalance
\* momentum (an imbalance delta of 0).
C32_OneStepLookback ==
    [][/\ RefreshCompletes =>
             /\ previousOrderBookFeaturesRef' = orderBookFeatures
             /\ Queued("orderBookFeatures") = {}
             /\ IsNull(market.book) => NewFeatureCalls = {}
             /\ (~IsNull(market.book) /\ ~tornDown) =>
                   \E i \in NewFeatureCalls :
                       /\ NewCalls[i].op = "set"
                       /\ NewCalls[i].arg = Some([imbalance |-> market.book[1]])
       /\ ~RefreshCompletes => previousOrderBookFeaturesRef' = previousOrderBookFeaturesRef
       /\ BookFailedLast =>
             /\ previousOrderBookFeaturesRef = orderBookFeatures
             /\ Queued("orderBookFeatures") = {}
             /\ \A tf \in Timeframes : (LoopTick(tf) /\ SufficientInputs /\ ~tornDown) =>
                   /\ imbalanceMomentum(orderBookFeatures[1], previousOrderBookFeaturesRef) = 0
                   /\ NewSignals =
                         {generateSmartOrderBookPrediction(
                             tf, orderBookFeatures[1], Some(orderBookFeatures[1]),
                             priceHistory[Len(priceHistory)].price
                                - priceHistory[Len(priceHistory) - 1].price,
                             orderBookAccuracyStats(orderBookOutcomes)[tf], now, nextObId)}
      ]_vars

\* the order-book source has failed on the last refresh, the snapshot of an
\* earlier refresh is both current and previous, and a loop has just made a
\* signal from them
C32_Witness ==
    /\ ~tornDown
    /\ BookFailedLast
    /\ ~IsNull(orderBookFeatures)
    /\ previousOrderBookFeaturesRef = orderBookFeatures
    /\ \E i \in Queued("orderBookOutcomes") :
          /\ queue[i].op = "prependOutcomes"
          /\ queue[i].arg[1].prediction.timestamp = now

\* the book has moved between two refreshes: the previous snapshot is the one of
\* the refresh before the last, and differs from the current one
C32_Lookback ==
    /\ ~tornDown
    /\ queue = <<>>
    /\ ~IsNull(previousOrderBookFeaturesRef)
    /\ ~IsNull(orderBookFeatures)
    /\ previousOrderBookFeaturesRef # orderBookFeatures

----------------------------------------------------------------------------
(* Insertions and resolution write-backs *)

\* the outcomes the waiting calls of a setter insert
Inserts(hook) ==
    UNION {IdsOf(queue[i].arg) : i \in {j \in Queued(hook) : queue[j].op = "prependOutcomes"}}

\* a commit keeps every outcome of a history and every outcome inserted into it,
\* but for those that MAX_OUTCOME_HISTORY newer ones push out of the window
Keeps(hook, before, after) ==
    LET all == IdsOf(before) \cup Inserts(hook)
    IN  \A id \in all :
            Cardinality({j \in all : j > id}) < MAX_OUTCOME_HISTORY => id \in IdsOf(after)

\* a render of the mounted component applies the waiting setter calls
Commit == queue # <<>> /\ queue' = <<>> /\ ~tornDown'

\* C33: no commit drops an outcome: whatever the order of insertions and
\* resolution write-backs waiting to be applied, the history after the commit
\* holds every outcome it held before and every outcome inserted, except those
\* evicted from the window of MAX_OUTCOME_HISTORY.
C33_NoOutcomeDropped ==
    [][Commit =>
          /\ Keeps("orderBookOutcomes", orderBookOutcomes, orderBookOutcomes')
          /\ Keeps("aiPredictionOutcomes", aiPredictionOutcomes, aiPredictionOutcomes')]_vars

\* an insertion and a write-back of the same history wait for the same commit,
\* the insertion first
C33_InsertionBeforeWriteBack ==
    /\ ~tornDown
    /\ \E i, j \in Queued("orderBookOutcomes") :
          /\ i < j
          /\ queue[i].op = "prependOutcomes"
          /\ queue[j].op = "set"

----------------------------------------------------------------------------
(* The horizon and the statistics in the signal *)

\* the signal the generator makes from the call's features, previous snapshot
\* and price change for another horizon and other statistics
SignalWith(tf, accuracy) ==
    generateSmartOrderBookPrediction(tf, generatorCall[1].features, generatorCall[1].prevFeatures,
                                     ArgPriceChange, accuracy, now, nextObId)

\* the statistics tried for one horizon
AccuracyValues == {AccuracyCases[i] : i \in 1..Len(AccuracyCases)}

\* one confidence is no less than another
AtLeast(a, b) == a.num * b.den >= b.num * a.den

\* C34: with the features, the previous snapshot and the price change fixed, the
\* generator's direction is the same for the three horizons and for all
\* statistics; horizon and statistics change the confidence only; with the same
\* statistics the confidence of the 15 s signal is no less than that of the 30 s
\* signal, which is no less than that of the 60 s signal.
C34_DirectionIndependent ==
    Called =>
        /\ SignalWith(ArgTimeframe, ArgAccuracy) = Signal
        /\ \A tf \in Timeframes, accuracy \in AccuracyValues :
              /\ SignalWith(tf, accuracy).direction = Signal.direction
              /\ [SignalWith(tf, accuracy) EXCEPT !.timeframe = Signal.timeframe,
                                                  !.confidence = Signal.confidence] = Signal
        /\ \A accuracy \in AccuracyValues :
              /\ AtLeast(SignalWith("15s", accuracy).confidence,
                         SignalWith("30s", accuracy).confidence)
              /\ AtLeast(SignalWith("30s", accuracy).confidence,
                         SignalWith("60s", accuracy).confidence)

\* a 60 s signal UP made with statistics that count: the 15 s signal of the same
\* inputs has the same direction and a greater confidence, and other statistics
\* give the 60 s signal another confidence
C34_Witness ==
    /\ Called
    /\ ArgTimeframe = "60s"
    /\ Signal.direction = "UP"
    /\ ~IsNull(ArgAccuracy)
    /\ ArgAccuracy[1].total > ACCURACY_MIN_TOTAL
    /\ ~AtLeast(Signal.confidence, SignalWith("15s", ArgAccuracy).confidence)
    /\ \E accuracy \in AccuracyValues :
          SignalWith("60s", accuracy).confidence # Signal.confidence

----------------------------------------------------------------------------
(* The accuracy records *)

\* the outcomes of a horizon in a history that are scored: CORRECT or INCORRECT
Scored(outcomes, tf) ==
    {i \in 1..Len(outcomes) :
        /\ outcomes[i].prediction.timeframe = tf
        /\ outcomes[i].status \in {"CORRECT", "INCORRECT"}}

\* a record, when present, counts the scored outcomes of its horizon in the window
RecordSound(record, outcomes, tf) ==
    IF IsNull(record) THEN Scored(outcomes, tf) = {}
    ELSE /\ 1 <= record[1].total
         /\ record[1].total <= MAX_OUTCOME_HISTORY
         /\ 0 <= record[1].correct
         /\ record[1].correct <= record[1].total
         /\ record[1].total = Cardinality(Scored(outcomes, tf))
         /\ record[1].correct =
               Cardinality({i \in Scored(outcomes, tf) : outcomes[i].status = "CORRECT"})

RecordsSound ==
    \A tf \in Timeframes :
        /\ RecordSound(orderBookAccuracyStats(orderBookOutcomes)[tf], orderBookOutcomes, tf)
        /\ RecordSound(aiAccuracyStats(aiPredictionOutcomes)[tf], aiPredictionOutcomes, tf)

\* a step changes one of the two outcome histories
OutcomesChange ==
    \/ aiPredictionOutcomes' # aiPredictionOutcomes
    \/ orderBookOutcomes' # orderBookOutcomes

\* C35: in every state each accuracy record of a horizon (of the heuristic
\* tracker and of the oracle) that is present has 1 <= total <= 60 and
\* 0 <= correct <= total, total being the number of outcomes of that horizon in
\* the window that are CORRECT or INCORRECT; and the signal a loop tick makes is
\* the generator's for the record derived from the outcome history at that tick.
\* (The records are sound in the first state and after every step that changes
\* an outcome history, hence in every state.)
C35_AccuracyRecords ==
    /\ RecordsSound
    /\ [][/\ OutcomesChange => RecordsSound'
          /\ \A tf \in Timeframes : (LoopTick(tf) /\ SufficientInputs /\ ~tornDown) =>
                NewSignals =
                    {generateSmartOrderBookPrediction(
                        tf, orderBookFeatures[1], previousOrderBookFeaturesRef,
                        priceHistory[Len(priceHistory)].price
                           - priceHistory[Len(priceHistory) - 1].price,
                        orderBookAccuracyStats(orderBookOutcomes)[tf], now, nextObId)}]_vars

\* the window is full, the record of a horizon counts thirty scored outcomes or
\* more, and a loop of that horizon has just made a signal with it
C35_Witness ==
    /\ ~tornDown
    /\ Len(orderBookOutcomes) = MAX_OUTCOME_HISTORY
    /\ \E i \in Queued("orderBookOutcomes") :
          /\ queue[i].op = "prependOutcomes"
          /\ queue[i].arg[1].prediction.timestamp = now
          /\ LET tf == queue[i].arg[1].prediction.timeframe
                 record == orderBookAccuracyStats(orderBookOutcomes)[tf]
             IN  /\ ~IsNull(record)
                 /\ record[1].total >= 30
                 /\ accuracyAdjustment(record) # [num |-> 0, den |-> 1]

----------------------------------------------------------------------------
(* Eviction from the outcome windows *)

\* the outcomes a step takes out of a history
Evicted(before, after) == IdsOf(before) \ IdsOf(after)

\* C36: an outcome that leaves an outcome history has left PENDING before: with
\* the loops at their periods (seven heuristic outcomes and six oracle outcomes a
\* minute into windows of MAX_OUTCOME_HISTORY) no outcome is evicted while it is
\* PENDING.
C36_NoPendingEvicted ==
    [][/\ \A id \in Evicted(orderBookOutcomes, orderBookOutcomes') :
             OutcomeOf(orderBookOutcomes, id).status # "PENDING"
       /\ \A id \in Evicted(aiPredictionOutcomes, aiPredictionOutcomes') :
             OutcomeOf(aiPredictionOutcomes, id).status # "PENDING"]_vars

\* both windows have overflowed: each is full, its oldest outcomes have been
\* evicted, and its newest outcomes are PENDING
C36_Witness ==
    /\ Len(orderBookOutcomes) = MAX_OUTCOME_HISTORY
    /\ orderBookOutcomes[MAX_OUTCOME_HISTORY].prediction.id > 1
    /\ orderBookOutcomes[1].status = "PENDING"
    /\ Len(aiPredictionOutcomes) = MAX_OUTCOME_HISTORY
    /\ aiPredictionOutcomes[MAX_OUTCOME_HISTORY].prediction.id > 1
    /\ aiPredictionOutcomes[1].status = "PENDING"

----------------------------------------------------------------------------
(* What an oracle response records *)

\* an oracle call is issued
CallIssued == Len(oracleCalls') > Len(oracleCalls)

\* the outcomes a step's new setter calls insert into the oracle's history, one
\* sequence per response
NewBatches ==
    {NewCalls[i].arg : i \in {j \in 1..Len(NewCalls) :
                                 /\ NewCalls[j].hook = "aiPredictionOutcomes"
                                 /\ NewCalls[j].op = "prependOutcomes"}}

\* the predictions of one response: their serials are consecutive
SameResponse(p, q) == (p.id - 1) \div Len(TimeframeOrder) = (q.id - 1) \div Len(TimeframeOrder)

\* two predictions of one response have one timestamp and one priceAtPrediction
Uniform(predictions) ==
    \A i, j \in 1..Len(predictions) :
        SameResponse(predictions[i], predictions[j]) =>
            /\ predictions[i].timestamp = predictions[j].timestamp
            /\ predictions[i].priceAtPrediction = predictions[j].priceAtPrediction

\* C38: a call keeps the last price of the price history it was issued with; the
\* predictions recorded from its response, one per horizon, all carry the time
\* the response was processed and that price, whatever the latest price is by
\* then; so in the oracle's outcome history and in the prediction history the
\* predictions of one response share one timestamp and one priceAtPrediction.
C38_ResponseMetadata ==
    [][/\ CallIssued =>
             oracleCalls'[Len(oracleCalls')].priceAtPrediction
                = priceHistory[Len(priceHistory)].price
       /\ \A batch \in NewBatches :
             \E c \in 1..Len(oracleCalls) :
                 /\ oracleCalls[c].due = now
                 /\ oracleCalls' = RemoveAt(oracleCalls, c)
                 /\ Len(batch) = Len(TimeframeOrder)
                 /\ \A k \in 1..Len(batch) :
                       /\ batch[k].prediction.timestamp = now
                       /\ batch[k].prediction.priceAtPrediction
                             = oracleCalls[c].priceAtPrediction
       /\ OutcomesChange =>
             /\ Uniform([k \in 1..Len(aiPredictionOutcomes') |->
                            aiPredictionOutcomes'[k].prediction])
             /\ Uniform(predictionHistory')]_vars

\* a response has just been processed after the price moved during the call: its
\* predictions carry the price of the call's issue, not the latest price
C38_Witness ==
    /\ ~tornDown
    /\ priceHistory # <<>>
    /\ \E i \in Queued("aiPredictionOutcomes") :
          /\ queue[i].op = "prependOutcomes"
          /\ Len(queue[i].arg) = Len(TimeframeOrder)
          /\ \A k \in 1..Len(queue[i].arg) :
                /\ queue[i].arg[k].prediction.timestamp = now
                /\ queue[i].arg[k].prediction.priceAtPrediction
                      # priceHistory[Len(priceHistory)].price

----------------------------------------------------------------------------
(* Termination of the chain of resolution passes *)

PendingCount(outcomes) ==
    Cardinality({i \in 1..Len(outcomes) : outcomes[i].status = "PENDING"})

\* the committed value of an outcome history
HistoryOf(hook) ==
    IF hook = "aiPredictionOutcomes" THEN aiPredictionOutcomes ELSE orderBookOutcomes

\* the waiting setter calls are write-backs of a resolution pass and nothing else
OnlyWriteBacks ==
    \A i \in 1..Len(queue) :
        /\ queue[i].op = "set"
        /\ queue[i].hook \in {"aiPredictionOutcomes", "orderBookOutcomes"}

\* C39: the chain of passes one change triggers ends, the clock standing still:
\* every write-back of a pass leaves its history with as many outcomes and fewer
\* of them PENDING, so that a pass can commit only a bounded number of times; and
\* the pass that follows a commit of write-backs alone finds nothing to resolve
\* and commits nothing, which ends the chain after at most two passes.
C39_PassChainTerminates ==
    [][/\ ResolutionPass =>
             \A i \in 1..Len(NewCalls) :
                 /\ NewCalls[i].op = "set"
                 /\ NewCalls[i].hook \in {"aiPredictionOutcomes", "orderBookOutcomes"}
                 /\ Len(NewCalls[i].arg) = Len(HistoryOf(NewCalls[i].hook))
                 /\ PendingCount(NewCalls[i].arg) < PendingCount(HistoryOf(NewCalls[i].hook))
       /\ (Commit /\ OnlyWriteBacks) =>
             /\ now' = now
             /\ pendingEffects' = {"resolve"}
             /\ resolutionUpdates(now)' = <<>>]_vars

\* the write-back of a pass that resolved a heuristic outcome at its horizon has
\* been committed; other outcomes are PENDING; the pass that commit triggered is
\* about to run and has nothing to resolve
C39_Witness ==
    /\ ~tornDown
    /\ queue = <<>>
    /\ pendingEffects = {"resolve"}
    /\ \E i \in 1..Len(orderBookOutcomes) :
          /\ orderBookOutcomes[i].status # "PENDING"
          /\ Age(orderBookOutcomes[i]) = Horizon(orderBookOutcomes[i])
    /\ PendingCount(orderBookOutcomes) > 0
    /\ resolutionUpdates(now) = <<>>
    /\ priceHistory[Len(priceHistory)].timestamp < now - KLINE_INTERVAL

----------------------------------------------------------------------------
(* Every outcome is settled *)

\* an outcome made at or before LiveCutoff has its horizon and a refresh after
\* it behind it when the session reaches MaxTime
LiveCutoff == MaxTime - (timeframeMap["60s"] + 2 * MARKET_DATA_INTERVAL)

\* no outcome made at or before the time is PENDING in a history
SettledUpTo(time) ==
    /\ \A i \in 1..Len(orderBookOutcomes) :
          orderBookOutcomes[i].prediction.timestamp <= time =>
              orderBookOutcomes[i].status # "PENDING"
    /\ \A i \in 1..Len(aiPredictionOutcomes) :
          aiPredictionOutcomes[i].prediction.timestamp <= time =>
              aiPredictionOutcomes[i].status # "PENDING"

\* C37: in a session that stays mounted and whose refreshes go on appending
\* price ticks no outcome stays PENDING for ever: from some point on every
\* outcome made at or before LiveCutoff, of the oracle or of the heuristic loops,
\* of any horizon, has a terminal status or has left its history.  (The session
\* is followed to MaxTime; the horizon of an outcome made after LiveCutoff may
\* end beyond MaxTime.)
C37_EveryOutcomeSettles ==
    <>[]SettledUpTo(LiveCutoff)

\* the mounted session is well past LiveCutoff: a 60 s outcome of the oracle and
\* one of the heuristic loops, both made before it, have terminal statuses, and
\* no outcome made before it is PENDING
C37_Witness ==
    /\ now > LiveCutoff + timeframeMap["60s"]
    /\ SettledUpTo(LiveCutoff)
    /\ \E i \in 1..Len(aiPredictionOutcomes) :
          /\ aiPredictionOutcomes[i].prediction.timeframe = "60s"
          /\ aiPredictionOutcomes[i].prediction.timestamp <= LiveCutoff
          /\ aiPredictionOutcomes[i].status \in {"CORRECT", "INCORRECT"}
    /\ \E i \in 1..Len(orderBookOutcomes) :
          /\ orderBookOutcomes[i].prediction.timeframe = "60s"
          /\ orderBookOutcomes[i].prediction.timestamp <= LiveCutoff
          /\ orderBookOutcomes[i].prediction.timestamp > LateStart
          /\ orderBookOutcomes[i].status # "PENDING"

====
